---- MODULE Spec2Model ----
(***************************************************************************)
(* Model of the ILI anomaly-pair similarity pipeline:                      *)
(*   training/features.py       extract_features and its helpers           *)
(*   training/build_dataset.py  build_dataset, save_dataset, __main__      *)
(*                                                                         *)
(* Real-valued quantities (feet, clock hours, percentages, weights, years) *)
(* are fixed-point integers in hundredths: 30.0 ft is 3000, the weight     *)
(* 0.85 is 85, the missing-value sentinel -1.0 is -100.                    *)
(* Python's None / an absent dictionary key is the empty sequence <<>>,    *)
(* a present value v is <<v>>.                                             *)
(***************************************************************************)
EXTENDS Integers, Sequences, FiniteSets, TLC

\* ------------------------------------------------------------------------
\* Bounds of the model (not program constants)
\* ------------------------------------------------------------------------
MaxSeed == 5
MaxBuilds == 2
MaxPredicts == 2
MaxRuns == 2

\* ------------------------------------------------------------------------
\* Generic helpers
\* ------------------------------------------------------------------------
None == <<>>
Some(v) == <<v>>
IsNone(o) == o = <<>>
Val(o) == o[1]

Abs(x) == IF x < 0 THEN -x ELSE x

\* Python truthiness of an optional number: None and 0.0 are falsy.
Truthy(o) == ~IsNone(o) /\ Val(o) # 0

\* int(x) for a fixed-point product num/den with den > 0: truncation toward 0.
IntTrunc(num, den) == IF num >= 0 THEN num \div den ELSE -((-num) \div den)

Range(s) == {s[i] : i \in 1..Len(s)}

\* ------------------------------------------------------------------------
\* training/features.py
\* ------------------------------------------------------------------------
Sentinel == -100

FEATURE_NAMES ==
  << "abs_delta_distance_ft", "abs_delta_clock_hrs", "same_weld_segment",
     "abs_delta_depth_pct", "abs_delta_length_in", "abs_delta_width_in",
     "abs_delta_wall_thickness_in",
     "type_compatibility", "run_gap_years", "api_1163_tool_weight",
     "dtw_residual", "icp_residual", "anchor_density_in_segment" >>

NUM_FEATURES == Len(FEATURE_NAMES)

\* Mutant: the table lists METAL_LOSS / METAL_LOSS_MFG in one orientation only.
TypeCompatOneWay ==
     (<<"METAL_LOSS", "METAL_LOSS">> :> 100)
  @@ (<<"DENT", "DENT">> :> 100)
  @@ (<<"CRACK", "CRACK">> :> 100)
  @@ (<<"WELD", "WELD">> :> 100)
  @@ (<<"GIRTH_WELD", "GIRTH_WELD">> :> 100)
  @@ (<<"CLUSTER", "CLUSTER">> :> 100)
  @@ (<<"METAL_LOSS", "CORROSION">> :> 90)
  @@ (<<"CORROSION", "METAL_LOSS">> :> 90)
  @@ (<<"METAL_LOSS", "CLUSTER">> :> 85)
  @@ (<<"CLUSTER", "METAL_LOSS">> :> 85)
  @@ (<<"DENT", "DEFORMATION">> :> 85)
  @@ (<<"DEFORMATION", "DENT">> :> 85)
  @@ (<<"CRACK", "CRACK_LIKE">> :> 80)
  @@ (<<"CRACK_LIKE", "CRACK">> :> 80)
  @@ (<<"METAL_LOSS_MFG", "METAL_LOSS_MFG">> :> 100)
  @@ (<<"METAL_LOSS", "METAL_LOSS_MFG">> :> 70)

TYPE_COMPAT ==
     (<<"METAL_LOSS", "METAL_LOSS">> :> 100)
  @@ (<<"DENT", "DENT">> :> 100)
  @@ (<<"CRACK", "CRACK">> :> 100)
  @@ (<<"WELD", "WELD">> :> 100)
  @@ (<<"GIRTH_WELD", "GIRTH_WELD">> :> 100)
  @@ (<<"CLUSTER", "CLUSTER">> :> 100)
  @@ (<<"METAL_LOSS", "CORROSION">> :> 90)
  @@ (<<"CORROSION", "METAL_LOSS">> :> 90)
  @@ (<<"METAL_LOSS", "CLUSTER">> :> 85)
  @@ (<<"CLUSTER", "METAL_LOSS">> :> 85)
  @@ (<<"DENT", "DEFORMATION">> :> 85)
  @@ (<<"DEFORMATION", "DENT">> :> 85)
  @@ (<<"CRACK", "CRACK_LIKE">> :> 80)
  @@ (<<"CRACK_LIKE", "CRACK">> :> 80)
  @@ (<<"METAL_LOSS_MFG", "METAL_LOSS_MFG">> :> 100)
  @@ (<<"METAL_LOSS", "METAL_LOSS_MFG">> :> 70)
  @@ (<<"METAL_LOSS_MFG", "METAL_LOSS">> :> 70)

\* Mutant: the difference is not folded onto the shorter arc.
ClockDeltaNoWrap(a, b) ==
  IF IsNone(a) \/ IsNone(b) THEN Sentinel ELSE Abs(Val(a) - Val(b))

_clock_delta_wrap_aware(a, b) ==
  IF IsNone(a) \/ IsNone(b) THEN Sentinel
  ELSE LET raw == Abs(Val(a) - Val(b))
       IN  IF raw > 600 THEN 1200 - raw ELSE raw

\* Mutant: a missing operand is read as 0.0 instead of yielding the sentinel.
SafeAbsDeltaZeroFill(a, b) ==
  Abs((IF IsNone(a) THEN 0 ELSE Val(a)) - (IF IsNone(b) THEN 0 ELSE Val(b)))

_safe_abs_delta(a, b) ==
  IF IsNone(a) \/ IsNone(b) THEN Sentinel ELSE Abs(Val(a) - Val(b))

_type_compat_score(t1, t2) ==
  IF t1 = t2 THEN 100
  ELSE IF <<t1, t2>> \in DOMAIN TYPE_COMPAT THEN TYPE_COMPAT[<<t1, t2>>] ELSE 0

\* Mutant: two different joint numbers fall through to the position test.
SameSegmentFallThrough(a, b) ==
  IF ~IsNone(a.joint_number) /\ ~IsNone(b.joint_number)
     /\ Val(a.joint_number) = Val(b.joint_number)
  THEN 100
  ELSE IF Abs(a.corrected_distance_ft - b.corrected_distance_ft) < 4000
       THEN 100 ELSE 0

_same_weld_segment(a, b) ==
  IF ~IsNone(a.joint_number) /\ ~IsNone(b.joint_number)
  THEN (IF Val(a.joint_number) = Val(b.joint_number) THEN 100 ELSE 0)
  ELSE LET dist_diff == Abs(a.corrected_distance_ft - b.corrected_distance_ft)
       IN  IF dist_diff < 4000 THEN 100 ELSE 0

CtxSlot(o) == IF ~IsNone(o) THEN Val(o) ELSE Sentinel

extract_features(older, newer, ctx) ==
  << Abs(older.corrected_distance_ft - newer.corrected_distance_ft),
     _clock_delta_wrap_aware(older.clock_position_hrs, newer.clock_position_hrs),
     _same_weld_segment(older, newer),
     _safe_abs_delta(older.depth_percent, newer.depth_percent),
     _safe_abs_delta(older.length_in, newer.length_in),
     _safe_abs_delta(older.width_in, newer.width_in),
     _safe_abs_delta(older.wall_thickness_in, newer.wall_thickness_in),
     _type_compat_score(older.event_type, newer.event_type),
     ctx.run_gap_years,
     ctx.api_1163_tool_weight,
     CtxSlot(ctx.dtw_residual),
     CtxSlot(ctx.icp_residual),
     CtxSlot(ctx.anchor_density) >>

\* ------------------------------------------------------------------------
\* training/build_dataset.py : documents and conversions
\* ------------------------------------------------------------------------

\* Feature document -> AnomalyRecord.
_feat_to_record(doc) ==
  [ feature_id |-> doc.id,
    run_id |-> doc.run_id,
    event_type |->
      IF ~IsNone(doc.event_type_canonical) THEN Val(doc.event_type_canonical)
      ELSE IF ~IsNone(doc.event_type_raw) THEN Val(doc.event_type_raw)
      ELSE "OTHER",
    corrected_distance_ft |->
      IF Truthy(doc.corrected_distance_ft) THEN Val(doc.corrected_distance_ft)
      ELSE IF Truthy(doc.log_distance_ft) THEN Val(doc.log_distance_ft)
      ELSE 0,
    log_distance_ft |->
      IF Truthy(doc.log_distance_ft) THEN Val(doc.log_distance_ft) ELSE 0,
    clock_position_hrs |-> doc.clock_decimal,
    depth_percent |-> doc.depth_percent,
    length_in |-> doc.length_in,
    width_in |-> doc.width_in,
    wall_thickness_in |-> doc.wall_thickness_in,
    joint_number |-> doc.joint_number,
    dist_to_upstream_weld_ft |-> doc.dist_to_upstream_weld_ft ]


\* ------------------------------------------------------------------------
\* Record store (MongoDB database): named collections, in the order that
\* list_collection_names reports them.  Document constructors:
\* ------------------------------------------------------------------------
Feat(id, run, type, dist, clock) ==
  [ id |-> id, run_id |-> run,
    event_type_canonical |-> Some(type), event_type_raw |-> None,
    corrected_distance_ft |-> Some(dist), log_distance_ft |-> Some(dist),
    clock_decimal |-> clock,
    depth_percent |-> None, length_in |-> None, width_in |-> None,
    wall_thickness_in |-> None, joint_number |-> None,
    dist_to_upstream_weld_ft |-> None,
    is_reference_point |-> FALSE ]

Pair(job, a, ra, b, rb) ==
  [ job_id |-> job,
    run_a_feature_id |-> a, run_a_run_id |-> ra,
    run_b_feature_id |-> b, run_b_run_id |-> rb,
    confidence_score |-> Some(9000) ]

\* tool_qualification: isdict = FALSE is a value that is not a dictionary;
\* an absent key behaves like the empty dictionary (the .get default).
Run(id, year, isdict, weight) ==
  [ id |-> id, year |-> year,
    tool_qualification |-> [isdict |-> isdict, confidence_weight |-> weight] ]

Coll(name, docs) == [name |-> name, docs |-> docs]

RunDocs ==
  << Run("rA", Some(2015), TRUE, None),
     Run("rB", Some(2020), TRUE, Some(90)),
     Run("rC", None, FALSE, None) >>

\* Two matched pairs; one near-miss candidate (a2), one reference point (aRef),
\* one candidate outside the clock window (aClk); several far cross-run pairs.
StoreShortfall ==
  << Coll("matchedpairs",
       << Pair("j1", "a1", "rA", "b1", "rB"),
          Pair("j1", "a3", "rA", "b3", "rB") >>),
     Coll("runs", RunDocs),
     Coll("features",
       << Feat("a1", "rA", "METAL_LOSS", 10000, Some(300)),
          Feat("a2", "rA", "CORROSION", 11000, Some(350)),
          [Feat("aRef", "rA", "GIRTH_WELD", 10500, None)
              EXCEPT !.is_reference_point = TRUE],
          Feat("aClk", "rA", "DENT", 10200, Some(900)),
          [Feat("a3", "rA", "METAL_LOSS", 50000, Some(1100))
              EXCEPT !.depth_percent = Some(2000), !.joint_number = Some(7)],
          [Feat("b1", "rB", "METAL_LOSS", 10100, Some(300))
              EXCEPT !.depth_percent = Some(2500), !.length_in = Some(150)],
          [Feat("b3", "rB", "METAL_LOSS_MFG", 50200, Some(50))
              EXCEPT !.depth_percent = Some(2600), !.joint_number = Some(7)] >>) >>

\* One matched pair, many near-miss candidates: the hard target is reached early.
StoreHardFull ==
  << Coll("matchedpairs", << Pair("j2", "a1", "rA", "b1", "rB") >>),
     Coll("runs", RunDocs),
     Coll("features",
       << Feat("a1", "rA", "DENT", 10000, None),
          Feat("a2", "rA", "DENT", 10500, Some(100)),
          Feat("a3", "rA", "DEFORMATION", 11000, None),
          Feat("a4", "rA", "DENT", 11500, None),
          Feat("b1", "rB", "DENT", 10100, Some(1150)),
          Feat("b9", "rB", "CRACK", 90000, None) >>) >>

\* No matched pairs in any collection.
StoreEmpty ==
  << Coll("runs", RunDocs),
     Coll("features", << Feat("a1", "rA", "DENT", 10000, None) >>) >>

\* The default collection is absent; the pairs live in "MatchedPairs".
StoreAlt ==
  << Coll("features",
       << Feat("a1", "rA", "CRACK", 10000, Some(600)),
          Feat("a2", "rA", "CRACK_LIKE", 12000, Some(700)),
          Feat("b1", "rB", "CRACK", 10050, Some(600)),
          Feat("c1", "rC", "OTHER", 30000, None) >>),
     Coll("MatchedPairs",
       << Pair("j3", "a1", "rA", "b1", "rB"),
          Pair("j3", "a2", "rA", "c1", "rC") >>),
     Coll("runs", RunDocs) >>

\* The default collection exists but is empty; "matched_pairs" holds the pairs.
StoreAltShadowed ==
  << Coll("matchedpairs", << >>),
     Coll("matched_pairs", << Pair("j4", "a1", "rA", "b1", "rB") >>),
     Coll("runs", RunDocs),
     Coll("features",
       << Feat("a1", "rA", "DENT", 10000, None),
          Feat("b1", "rB", "DENT", 10100, None) >>) >>

\* Every matched pair references a record that is not in the catalog.
StoreUnresolvable ==
  << Coll("matchedpairs",
       << Pair("j5", "ghost1", "rA", "b1", "rB"),
          Pair("j5", "a1", "rA", "ghost2", "rB") >>),
     Coll("runs", RunDocs),
     Coll("features",
       << Feat("a1", "rA", "DENT", 10000, None),
          Feat("b1", "rB", "DENT", 10100, None) >>) >>

\* The second of three matched pairs references a missing record.
StorePartial ==
  << Coll("matchedpairs",
       << Pair("j6", "a1", "rA", "b1", "rB"),
          Pair("j6", "ghost", "rA", "b2", "rB"),
          Pair("j6", "a3", "rA", "b3", "rB") >>),
     Coll("runs", RunDocs),
     Coll("features",
       << Feat("a1", "rA", "METAL_LOSS", 10000, Some(100)),
          Feat("a3", "rA", "CLUSTER", 30000, Some(200)),
          Feat("b1", "rB", "METAL_LOSS", 10200, Some(150)),
          Feat("b2", "rB", "METAL_LOSS", 12000, Some(150)),
          Feat("b3", "rB", "METAL_LOSS", 30100, None) >>) >>

\* Four resolvable matched pairs; every unmatched cross-run pair is within
\* 50 ft but outside the 2 h clock window: no near miss, no far pair.
NoNegClock(i) == CASE i = 1 -> 0 [] i = 2 -> 300 [] i = 3 -> 600 [] OTHER -> 900

StoreNoNegatives ==
  << Coll("matchedpairs",
       [i \in 1..4 |-> Pair("j7", "a" \o ToString(i), "rA",
                                  "b" \o ToString(i), "rB")]),
     Coll("runs", RunDocs),
     Coll("features",
       [i \in 1..4 |-> Feat("a" \o ToString(i), "rA", "METAL_LOSS",
                            10000 + 100 * i, Some(NoNegClock(i)))]
       \o
       [i \in 1..4 |-> Feat("b" \o ToString(i), "rB", "METAL_LOSS",
                            10050 + 100 * i, Some(NoNegClock(i)))]) >>

\* Both records of the only matched pair belong to the same run.
StoreOneRun ==
  << Coll("matchedpairs", << Pair("j8", "a1", "rA", "a2", "rA") >>),
     Coll("runs", RunDocs),
     Coll("features",
       << Feat("a1", "rA", "DENT", 10000, None),
          Feat("a2", "rA", "DENT", 10100, None),
          Feat("a3", "rA", "DENT", 50000, None) >>) >>

\* The second pair document names the rB record first: (b1, a2).
StoreReversed ==
  << Coll("matchedpairs",
       << Pair("j9", "a1", "rA", "b1", "rB"),
          Pair("j9", "b1", "rB", "a2", "rA"),
          Pair("j9", "a3", "rA", "b3", "rB") >>),
     Coll("runs", RunDocs),
     Coll("features",
       << Feat("a1", "rA", "DENT", 10000, None),
          Feat("a2", "rA", "DENT", 10200, None),
          Feat("a3", "rA", "DENT", 70000, None),
          Feat("b1", "rB", "DENT", 10100, None),
          Feat("b3", "rB", "DENT", 70100, None) >>) >>

\* Ten matched pairs 1000 ft apart, five near-miss candidates n1..n5.
StoreTen ==
  << Coll("matchedpairs",
       [i \in 1..10 |-> Pair("j10", "a" \o ToString(i), "rA",
                                    "b" \o ToString(i), "rB")]),
     Coll("runs", RunDocs),
     Coll("features",
       [i \in 1..10 |-> Feat("a" \o ToString(i), "rA", "METAL_LOSS",
                             100000 * i, Some(300))]
       \o
       [i \in 1..5 |-> Feat("n" \o ToString(i), "rA", "METAL_LOSS",
                            100000 * i + 1000, Some(400))]
       \o
       [i \in 1..10 |-> Feat("b" \o ToString(i), "rB", "METAL_LOSS",
                             100000 * i + 100, Some(300))]) >>

\* The record-store snapshots a build may be run against.
Stores ==
  << StoreShortfall, StoreHardFull, StoreEmpty, StoreAlt, StoreAltShadowed,
     StoreUnresolvable, StorePartial, StoreNoNegatives, StoreOneRun,
     StoreReversed, StoreTen >>

\* Negative:positive ratios offered on the command line (--neg-ratio).
Ratios == {300, 250, 100, 50}


\* ------------------------------------------------------------------------
\* Store access
\* ------------------------------------------------------------------------
list_collection_names(db) == [i \in 1..Len(db) |-> db[i].name]

\* db[name].find({}): the documents of the collection with exactly that name;
\* a collection that does not exist yields nothing.
Find(db, name) ==
  LET idx == {i \in 1..Len(db) : db[i].name = name}
  IN  IF idx = {} THEN << >> ELSE db[CHOOSE i \in idx : TRUE].docs

\* str.lower() on the collection names that occur.
Lower(name) ==
  CASE name = "MatchedPairs" -> "matchedpairs"
    [] name = "matchedPairs" -> "matchedpairs"
    [] name = "Matched_Pairs" -> "matched_pairs"
    [] name = "MatchedPair" -> "matchedpair"
    [] name = "Runs" -> "runs"
    [] name = "Run" -> "run"
    [] name = "Features" -> "features"
    [] name = "Feature" -> "feature"
    [] OTHER -> name

\* Index of the first element of s satisfying Test, 0 if none.
FirstIndex(s, Test(_)) ==
  LET idx == {i \in 1..Len(s) : Test(s[i])}
  IN  IF idx = {} THEN 0 ELSE CHOOSE i \in idx : \A j \in idx : i <= j

AltPairNames == << "MatchedPairs", "matched_pairs", "matchedPairs", "matchedpair" >>

\* Lines 86-100: the default collection, else the first alternate spelling that
\* names (case-insensitively) an existing collection; that collection is read
\* and the probe stops.
LoadMatchedPairs(db) ==
  LET first == Find(db, "matchedpairs")
      collections == list_collection_names(db)
      HasLower(n) == \E i \in 1..Len(collections) : Lower(collections[i]) = Lower(n)
      k == FirstIndex(AltPairNames, HasLower)
      SameLower(c) == Lower(c) = Lower(AltPairNames[k])
  IN  IF first # << >> THEN first
      ELSE IF k = 0 THEN << >>
      ELSE Find(db, collections[FirstIndex(collections, SameLower)])

\* A dictionary keyed by document id filled in cursor order (later wins).
DictOf(docs) ==
  [ id \in {docs[i].id : i \in 1..Len(docs)} |->
      docs[CHOOSE i \in 1..Len(docs) :
             docs[i].id = id /\ \A j \in 1..Len(docs) : docs[j].id = id => j <= i] ]

\* Lines 111-121.
LoadRuns(db) ==
  LET first == Find(db, "runs")
      collections == list_collection_names(db)
      IsRuns(c) == Lower(c) = "runs" \/ Lower(c) = "run"
      k == FirstIndex(collections, IsRuns)
  IN  IF first # << >> THEN DictOf(first)
      ELSE IF k = 0 THEN DictOf(<< >>)
      ELSE DictOf(Find(db, collections[k]))

\* Lines 125-130.  Mutant: only the (a, b) direction is stored.
MatchedSetOneWay(pairs) ==
  { <<pairs[i].run_a_feature_id, pairs[i].run_b_feature_id>> : i \in 1..Len(pairs) }

MatchedFeatureSet(pairs) ==
  { <<pairs[i].run_a_feature_id, pairs[i].run_b_feature_id>> : i \in 1..Len(pairs) }
  \cup
  { <<pairs[i].run_b_feature_id, pairs[i].run_a_feature_id>> : i \in 1..Len(pairs) }

\* Lines 133-137.
FeatIds(pairs) ==
  {pairs[i].run_a_feature_id : i \in 1..Len(pairs)}
  \cup {pairs[i].run_b_feature_id : i \in 1..Len(pairs)}

\* Lines 154-158.
RunIdsInMatches(pairs) ==
  {pairs[i].run_a_run_id : i \in 1..Len(pairs)}
  \cup {pairs[i].run_b_run_id : i \in 1..Len(pairs)}

InIds(ids, d) == d.id \in ids
InRuns(rids, d) == d.run_id \in rids

\* Lines 161-164: the features of the runs named by the matched pairs.
FeaturesOfRuns(db, pairs) ==
  LET rids == RunIdsInMatches(pairs)
      Keep(d) == InRuns(rids, d)
  IN  SelectSeq(Find(db, "features"), Keep)

\* Lines 140-150 then 161-163: features referenced by the matches (default
\* collection, else the first collection named like it), overlaid with every
\* feature of the relevant runs.
LoadFeaturesById(db, pairs) ==
  LET ids == FeatIds(pairs)
      Keep(d) == InIds(ids, d)
      first == SelectSeq(Find(db, "features"), Keep)
      collections == list_collection_names(db)
      IsFeatures(c) == Lower(c) = "features" \/ Lower(c) = "feature"
      k == FirstIndex(collections, IsFeatures)
      byId == IF first # << >> THEN first
              ELSE IF k = 0 THEN << >>
              ELSE SelectSeq(Find(db, collections[k]), Keep)
  IN  DictOf(byId \o FeaturesOfRuns(db, pairs))

\* Keys of all_features_for_runs in insertion order (dict order, line 314):
\* the run ids of the documents in order of first appearance.
RunKeys(docs) ==
  LET firsts == {i \in 1..Len(docs) :
                   \A j \in 1..(i - 1) : docs[j].run_id # docs[i].run_id}
  IN  [k \in 1..Cardinality(firsts) |->
         docs[CHOOSE i \in firsts :
                Cardinality({j \in firsts : j < i}) = k - 1].run_id]

\* all_features_for_runs.get(rid, []) over the loaded feature list.
FeaturesForRun(docs, rid) ==
  LET Keep(d) == d.run_id = rid IN SelectSeq(docs, Keep)

\* ------------------------------------------------------------------------
\* Pseudo-random generators.  `random` and `numpy.random` are process-wide
\* generators: a generator is a state, seeding sets the state from the seed,
\* every draw is a function of the state and advances it.  (A linear
\* congruential step stands for the Mersenne Twister; the upper bits are used.)
\* ------------------------------------------------------------------------
RngSeed(seed) == (seed * 389 + 17) % 1024
RngNext(s) == (s * 21 + 7) % 1024
\* randbelow(n): a value in 0..n-1
RngBelow(s, n) == (s \div 8) % n

\* Mutant: the two runs are drawn independently (with replacement).
RandomSample2WithReplacement(s, population) ==
  LET n == Len(population)
      s1 == RngNext(s)
  IN  [first |-> population[RngBelow(s, n) + 1],
       second |-> population[RngBelow(s1, n) + 1],
       rng |-> RngNext(s1)]
\* random.sample(population, 2): partial Fisher-Yates over a copy of the
\* population; returns the two picked elements and the generator state.
RandomSample2(s, population) ==
  LET n == Len(population)
      j1 == RngBelow(s, n) + 1
      s1 == RngNext(s)
      pool == [population EXCEPT ![j1] = population[n]]
      j2 == RngBelow(s1, n - 1) + 1
  IN  [first |-> population[j1], second |-> pool[j2], rng |-> RngNext(s1)]

\* random.choice(seq)
RandomChoice(s, seq) == [value |-> seq[RngBelow(s, Len(seq)) + 1], rng |-> RngNext(s)]

\* np.random.permutation(n): Fisher-Yates from the top index down; the result
\* is a sequence of the (1-based) source indices.
RECURSIVE ShuffleFrom(_, _, _)
ShuffleFrom(perm, i, s) ==
  IF i <= 1 THEN [perm |-> perm, rng |-> s]
  ELSE LET j == RngBelow(s, i) + 1
           swapped == [perm EXCEPT ![i] = perm[j], ![j] = perm[i]]
       IN  ShuffleFrom(swapped, i - 1, RngNext(s))

\* Mutant: n indices drawn independently (with replacement).
NpRandomIndices(s, n) ==
  LET st[i \in 0..n] == IF i = 0 THEN s ELSE RngNext(st[i - 1])
  IN  [perm |-> [i \in 1..n |-> RngBelow(st[i - 1], n) + 1], rng |-> st[n]]

NpPermutation(s, n) == ShuffleFrom([i \in 1..n |-> i], n, s)


\* ------------------------------------------------------------------------
\* build_dataset: parameters and pure pieces
\* ------------------------------------------------------------------------
hard_neg_dist_ft == 3000
hard_neg_clock_hrs == 200

RunGet(runs, rid) == IF rid \in DOMAIN runs THEN Some(runs[rid]) ELSE None

\* run.get("year", default) on runs_by_id.get(rid, {})
YearOf(run, default) ==
  IF IsNone(run) \/ IsNone(Val(run).year) THEN default ELSE Val(Val(run).year)

\* tool_qual.get("confidence_weight", 0.85) if isinstance(tool_qual, dict) else 0.85
ToolWeightOf(run) ==
  IF IsNone(run) THEN 85
  ELSE LET tool_qual == Val(run).tool_qualification
       IN  IF tool_qual.isdict /\ ~IsNone(tool_qual.confidence_weight)
           THEN Val(tool_qual.confidence_weight) ELSE 85

\* Lines 188-201, 282-295, 348-361.
MakePairContext(runs, a_run_id, b_run_id) ==
  LET a_run == RunGet(runs, a_run_id)
      b_run == RunGet(runs, b_run_id)
  IN  [ run_gap_years |-> 100 * Abs(YearOf(b_run, 2005) - YearOf(a_run, 2000)),
        api_1163_tool_weight |-> ToolWeightOf(b_run),
        dtw_residual |-> None, icp_residual |-> None, anchor_density |-> None ]

\* Lines 225-227.
TargetNeg(n, ratio) == IntTrunc(n * ratio, 100)

\* Mutant: the hard share is rounded up instead of truncated.
TargetHardCeil(tn) == (tn * 60 + 99) \div 100

TargetHard(tn) == IntTrunc(tn * 60, 100)

\* Mutant: the hard share is not subtracted from the easy target.
TargetEasyWhole(tn, th) == tn

TargetEasy(tn, th) == tn - th

\* Lines 238 and 251.  Mutant: off by one (> instead of >=).
HardFullOffByOne(n, th) == n > th

HardFull(n, th) == n >= th

\* Line 316.
MaxEasyAttempts(te) == te * 20

\* Line 318.  Mutants: the attempt budget is not tested; the total may reach
\* one more than the target.
EasyLoopNoBudget(nneg, neasy, th, te, attempts) == nneg < th + te

EasyLoopOneMore(nneg, neasy, th, te, attempts) ==
  nneg <= th + te /\ attempts < MaxEasyAttempts(te)

EasyLoopCond(nneg, neasy, th, te, attempts) ==
  nneg < th + te /\ attempts < MaxEasyAttempts(te)

\* Lines 274-279: TRUE when the candidate is outside the clock window.
ClockTooFar(a_rec, b_rec) ==
  /\ ~IsNone(a_rec.clock_position_hrs)
  /\ ~IsNone(b_rec.clock_position_hrs)
  /\ LET raw == Abs(Val(a_rec.clock_position_hrs) - Val(b_rec.clock_position_hrs))
         clock_diff == IF raw > 600 THEN 1200 - raw ELSE raw
     IN  clock_diff > hard_neg_clock_hrs

\* Mutant: the clock window is not tested.
HardAcceptsNoClockWindow(a_doc, b_id, b_rec, mfs, nps) ==
  /\ <<a_doc.id, b_id>> \notin mfs
  /\ <<a_doc.id, b_id>> \notin nps
  /\ ~a_doc.is_reference_point
  /\ Abs(_feat_to_record(a_doc).corrected_distance_ft - b_rec.corrected_distance_ft)
        <= hard_neg_dist_ft

\* Lines 254-279: the candidate a_doc passes every skip test against b.
HardAccepts(a_doc, b_id, b_rec, mfs, nps) ==
  /\ <<a_doc.id, b_id>> \notin mfs
  /\ <<a_doc.id, b_id>> \notin nps
  /\ ~a_doc.is_reference_point
  /\ Abs(_feat_to_record(a_doc).corrected_distance_ft - b_rec.corrected_distance_ft)
        <= hard_neg_dist_ft
  /\ ~ClockTooFar(_feat_to_record(a_doc), b_rec)

\* Mutant: the far-separation test is missing.
EasyAcceptsAnyDistance(a_doc, b_doc, mfs, nps) ==
  /\ <<a_doc.id, b_doc.id>> \notin mfs
  /\ <<a_doc.id, b_doc.id>> \notin nps

\* Lines 335-346: the drawn pair passes every reject test.
EasyAccepts(a_doc, b_doc, mfs, nps) ==
  /\ <<a_doc.id, b_doc.id>> \notin mfs
  /\ <<a_doc.id, b_doc.id>> \notin nps
  /\ ~(Abs(_feat_to_record(a_doc).corrected_distance_ft
           - _feat_to_record(b_doc).corrected_distance_ft) < 5000)

\* Mutant: an unresolvable pair ends the positive loop (break).
AfterSkippedPairBreak(i, n) == n + 1

\* Line 182: `continue` goes on with the next matched pair.
AfterSkippedPair(i, n) == i + 1

PosMeta(mp) ==
  [ feature_a |-> mp.run_a_feature_id, feature_b |-> mp.run_b_feature_id,
    job_id |-> mp.job_id, det_score |-> mp.confidence_score,
    label |-> 1, neg_type |-> None ]

NegMeta(a_id, b_id, job, kind) ==
  [ feature_a |-> a_id, feature_b |-> b_id,
    job_id |-> job, det_score |-> None,
    label |-> 0, neg_type |-> Some(kind) ]

CountType(meta, kind) ==
  Cardinality({i \in 1..Len(meta) : meta[i].neg_type = Some(kind)})

\* Line 218.  Mutant: the zero-positives test is missing.
NoPositivesIgnored(n) == FALSE

NoPositives(n) == n = 0

\* Lines 78-79.  Mutant: the generator is left as the process last left it.
SeedGeneratorKeep(old, s) == old

SeedGenerator(old, s) == RngSeed(s)


\* ------------------------------------------------------------------------
\* State
\* ------------------------------------------------------------------------
VARIABLES
  snapshot,        \* index into Stores: the record store the process reads
  seed,            \* --seed
  neg_pos_ratio,   \* --neg-ratio
  pc,              \* position of the process
  builds,          \* build_dataset calls started by this process
  pyRng, npRng,    \* the process-wide generators of random and numpy.random
  matched_pairs, runs_by_id, matched_feature_set, features_by_id,
  all_features_for_runs, all_run_ids,
  X_pos, meta_pos, mp_i, a_i,
  n_pos, target_neg, target_hard, target_easy,
  X_neg, meta_neg, neg_pair_set, easy_attempts,
  X, y, metadata,  \* the returned dataset
  exit_code,       \* <<>> while running, <<1>> after sys.exit(1)
  saved,           \* the dataset file written by save_dataset
  prev_out,        \* the dataset returned by the previous call of the process
  fx_older, fx_newer, fx_ctx, fx_out,  \* a direct call of extract_features
  \* the artifact directory and the inference service (xgboost_model.py, main.py)
  model_file, metrics_file, fi_file,
  xgb_installed,     \* whether `import xgboost` succeeds in the service
  similarity_model,  \* main.py global: <<>> or the constructed adapter
  startup_error,     \* exception that escaped XGBoostSimilarityModel()
  req, resp,         \* the last similarity request and its response
  predict_error,     \* exception that escaped the last predict call
  n_predicts,
  \* train_model (train_xgboost.py)
  tr_y,              \* argument y: the label vector
  tr_run,            \* which run of the training command this is (its time)
  sk_single_class,   \* installed scikit-learn: roc_auc_score on one class
  xgb_single_class,  \* installed xgboost: fit on labels that are all 1
  scale_pos_weight, y_train, y_test, fold, cv_aucs,
  y_test_proba, test_auc, threshold_report, cm,
  tr_error,          \* exception that escaped train_model
  tr_result          \* the returned dict

inputVars == <<snapshot, seed, neg_pos_ratio>>
rngVars == <<pyRng, npRng>>
loadVars == <<matched_pairs, runs_by_id, matched_feature_set, features_by_id,
              all_features_for_runs, all_run_ids>>
posVars == <<X_pos, meta_pos>>
targetVars == <<n_pos, target_neg, target_hard, target_easy>>
negVars == <<X_neg, meta_neg, neg_pair_set>>
outVars == <<X, y, metadata>>
fxVars == <<fx_older, fx_newer, fx_ctx, fx_out>>
fileVars == <<model_file, metrics_file, fi_file>>
svcVars == <<xgb_installed, similarity_model, startup_error, req, resp,
             predict_error, n_predicts>>
trainInputs == <<tr_y, tr_run, sk_single_class, xgb_single_class>>
trainVars == <<trainInputs, scale_pos_weight, y_train, y_test, fold, cv_aucs,
               y_test_proba, test_auc, threshold_report, cm, tr_error,
               tr_result>>

vars == <<inputVars, pc, builds, rngVars, loadVars, posVars, mp_i, a_i,
          targetVars, negVars, easy_attempts, outVars, exit_code, saved,
          prev_out, fxVars, fileVars, svcVars, trainVars>>

EmptyDict == [k \in {} |-> 0]

\* The locals of build_dataset before the call.
LocalsInit ==
  /\ matched_pairs = << >> /\ runs_by_id = EmptyDict
  /\ matched_feature_set = {} /\ features_by_id = EmptyDict
  /\ all_features_for_runs = EmptyDict /\ all_run_ids = << >>
  /\ X_pos = << >> /\ meta_pos = << >> /\ mp_i = 0 /\ a_i = 0
  /\ n_pos = 0 /\ target_neg = 0 /\ target_hard = 0 /\ target_easy = 0
  /\ X_neg = << >> /\ meta_neg = << >> /\ neg_pair_set = {}
  /\ easy_attempts = 0
  /\ X = << >> /\ y = << >> /\ metadata = << >>

FxIdle ==
  /\ fx_older = None /\ fx_newer = None /\ fx_ctx = None /\ fx_out = None

AbsentFile == [state |-> "absent", content |-> None]

\* No artifact directory content, no service process.
SvcIdle ==
  /\ model_file = AbsentFile /\ metrics_file = AbsentFile
  /\ fi_file = AbsentFile
  /\ xgb_installed = TRUE
  /\ similarity_model = None /\ startup_error = None
  /\ req = None /\ resp = None /\ predict_error = None /\ n_predicts = 0

\* The locals of train_model before the call.
TrainLocalsInit ==
  /\ scale_pos_weight = 100
  /\ y_train = << >> /\ y_test = << >> /\ fold = 0 /\ cv_aucs = << >>
  /\ y_test_proba = << >> /\ test_auc = None /\ threshold_report = None
  /\ cm = None /\ tr_error = None /\ tr_result = None

TrainIdle ==
  /\ tr_y = << >> /\ tr_run = 0 /\ sk_single_class = "raise" /\ xgb_single_class = "raise"
  /\ TrainLocalsInit

\* A fresh process: the generators hold whatever the interpreter seeded them
\* with; nothing has been built.
Init ==
  /\ snapshot \in 1..Len(Stores)
  /\ seed \in 0..MaxSeed
  /\ neg_pos_ratio \in Ratios
  /\ pc = "idle" /\ builds = 0
  /\ pyRng \in {5, 700} /\ npRng = 1023 - pyRng
  /\ LocalsInit
  /\ exit_code = None /\ saved = None /\ prev_out = None
  /\ FxIdle /\ SvcIdle /\ TrainIdle

db == Stores[snapshot]

\* ------------------------------------------------------------------------
\* build_dataset, lines 78-167: seed the generators, load the collections.
\* Lines 102-104: no matched pairs anywhere -> sys.exit(1).
\* ------------------------------------------------------------------------
BuildStart ==
  /\ pc = "idle"
  /\ builds < MaxBuilds
  /\ builds' = builds + 1
  /\ pyRng' = SeedGenerator(pyRng, seed)
  /\ npRng' = SeedGenerator(npRng, seed)
  /\ LET pairs == LoadMatchedPairs(db)
         feats == FeaturesOfRuns(db, pairs)
         keys == RunKeys(feats)
     IN  /\ matched_pairs' = pairs
         /\ IF pairs = << >>
            THEN /\ pc' = "aborted" /\ exit_code' = Some(1)
                 /\ UNCHANGED <<runs_by_id, matched_feature_set, features_by_id,
                                all_features_for_runs, all_run_ids, mp_i>>
            ELSE /\ pc' = "positives" /\ exit_code' = None
                 /\ runs_by_id' = LoadRuns(db)
                 /\ matched_feature_set' = MatchedFeatureSet(pairs)
                 /\ features_by_id' = LoadFeaturesById(db, pairs)
                 /\ all_features_for_runs' =
                      [rid \in Range(keys) |-> FeaturesForRun(feats, rid)]
                 /\ all_run_ids' = keys
                 /\ mp_i' = 1
  /\ UNCHANGED <<inputVars, posVars, a_i, targetVars, negVars, easy_attempts,
                 outVars, saved, prev_out, fxVars,
                 fileVars, svcVars, trainVars>>

\* Lines 176-213: one iteration of the positive loop.
PositiveStep ==
  /\ pc = "positives"
  /\ mp_i <= Len(matched_pairs)
  /\ LET mp == matched_pairs[mp_i]
         a_id == mp.run_a_feature_id
         b_id == mp.run_b_feature_id
     IN  IF a_id \notin DOMAIN features_by_id \/ b_id \notin DOMAIN features_by_id
         THEN /\ UNCHANGED posVars
              /\ mp_i' = AfterSkippedPair(mp_i, Len(matched_pairs))
         ELSE LET a_rec == _feat_to_record(features_by_id[a_id])
                  b_rec == _feat_to_record(features_by_id[b_id])
                  ctx == MakePairContext(runs_by_id, mp.run_a_run_id, mp.run_b_run_id)
              IN  /\ X_pos' = Append(X_pos, extract_features(a_rec, b_rec, ctx))
                  /\ meta_pos' = Append(meta_pos, PosMeta(mp))
                  /\ mp_i' = mp_i + 1
  /\ UNCHANGED <<inputVars, pc, builds, rngVars, loadVars, a_i, targetVars,
                 negVars, easy_attempts, outVars, exit_code, saved, prev_out,
                 fxVars,
                 fileVars, svcVars, trainVars>>

\* Lines 215-232: count the positives; none -> sys.exit(1); else the targets.
PositivesDone ==
  /\ pc = "positives"
  /\ mp_i > Len(matched_pairs)
  /\ n_pos' = Len(X_pos)
  /\ IF NoPositives(Len(X_pos))
     THEN /\ pc' = "aborted" /\ exit_code' = Some(1)
          /\ UNCHANGED <<target_neg, target_hard, target_easy, mp_i, a_i>>
     ELSE /\ pc' = "hard" /\ exit_code' = exit_code
          /\ target_neg' = TargetNeg(Len(X_pos), neg_pos_ratio)
          /\ target_hard' = TargetHard(TargetNeg(Len(X_pos), neg_pos_ratio))
          /\ target_easy' = TargetEasy(TargetNeg(Len(X_pos), neg_pos_ratio),
                                       TargetHard(TargetNeg(Len(X_pos), neg_pos_ratio)))
          /\ mp_i' = 1 /\ a_i' = 0
  /\ UNCHANGED <<inputVars, builds, rngVars, loadVars, posVars, negVars,
                 easy_attempts, outVars, saved, prev_out, fxVars,
                 fileVars, svcVars, trainVars>>

\* Lines 237-248: head of the outer hard-negative loop (a_i = 0).
HardNextPair ==
  /\ pc = "hard" /\ a_i = 0
  /\ IF mp_i > Len(matched_pairs) \/ HardFull(Len(X_neg), target_hard)
     THEN /\ pc' = "easy" /\ UNCHANGED <<mp_i, a_i>>
     ELSE /\ pc' = pc
          /\ IF matched_pairs[mp_i].run_b_feature_id \notin DOMAIN features_by_id
             THEN mp_i' = mp_i + 1 /\ a_i' = 0
             ELSE mp_i' = mp_i /\ a_i' = 1
  /\ UNCHANGED <<inputVars, builds, rngVars, loadVars, posVars, targetVars,
                 negVars, easy_attempts, outVars, exit_code, saved, prev_out,
                 fxVars,
                 fileVars, svcVars, trainVars>>

\* Lines 250-308: one iteration of the inner loop over the older run's features.
HardCandidate ==
  /\ pc = "hard" /\ a_i >= 1
  /\ LET mp == matched_pairs[mp_i]
         b_id == mp.run_b_feature_id
         b_rec == _feat_to_record(features_by_id[b_id])
         a_run_id == mp.run_a_run_id
         a_features == IF a_run_id \in DOMAIN all_features_for_runs
                       THEN all_features_for_runs[a_run_id] ELSE << >>
     IN  IF a_i > Len(a_features) \/ HardFull(Len(X_neg), target_hard)
         THEN /\ mp_i' = mp_i + 1 /\ a_i' = 0
              /\ UNCHANGED negVars
         ELSE /\ mp_i' = mp_i /\ a_i' = a_i + 1
              /\ LET a_doc == a_features[a_i]
                 IN  IF HardAccepts(a_doc, b_id, b_rec, matched_feature_set, neg_pair_set)
                     THEN /\ X_neg' = Append(X_neg,
                               extract_features(_feat_to_record(a_doc), b_rec,
                                 MakePairContext(runs_by_id, a_run_id, mp.run_b_run_id)))
                          /\ meta_neg' = Append(meta_neg,
                               NegMeta(a_doc.id, b_id, mp.job_id, "hard"))
                          /\ neg_pair_set' = neg_pair_set \cup {<<a_doc.id, b_id>>}
                     ELSE UNCHANGED negVars
  /\ UNCHANGED <<inputVars, pc, builds, rngVars, loadVars, posVars, targetVars,
                 easy_attempts, outVars, exit_code, saved, prev_out, fxVars,
                 fileVars, svcVars, trainVars>>

\* Lines 318-323 with fewer than two runs: the attempt is counted, then break.
EasyTooFewRuns ==
  /\ pc = "easy"
  /\ EasyLoopCond(Len(X_neg), CountType(meta_neg, "easy"), target_hard,
                  target_easy, easy_attempts)
  /\ Len(all_run_ids) < 2
  /\ easy_attempts' = easy_attempts + 1
  /\ pc' = "shuffle"
  /\ UNCHANGED <<inputVars, builds, rngVars, loadVars, posVars, mp_i, a_i,
                 targetVars, negVars, outVars, exit_code, saved, prev_out, fxVars,
                 fileVars, svcVars, trainVars>>

\* Lines 318-374: one iteration of the easy-negative loop.
EasyAttempt ==
  /\ pc = "easy"
  /\ EasyLoopCond(Len(X_neg), CountType(meta_neg, "easy"), target_hard,
                  target_easy, easy_attempts)
  /\ Len(all_run_ids) >= 2
  /\ easy_attempts' = easy_attempts + 1
  /\ LET runs2 == RandomSample2(pyRng, all_run_ids)
         r1 == runs2.first
         r2 == runs2.second
         feats_r1 == all_features_for_runs[r1]
         feats_r2 == all_features_for_runs[r2]
     IN  IF feats_r1 = << >> \/ feats_r2 = << >>
         THEN /\ pyRng' = runs2.rng
              /\ UNCHANGED negVars
         ELSE LET ca == RandomChoice(runs2.rng, feats_r1)
                  cb == RandomChoice(ca.rng, feats_r2)
                  a_doc == ca.value
                  b_doc == cb.value
              IN  /\ pyRng' = cb.rng
                  /\ IF EasyAccepts(a_doc, b_doc, matched_feature_set, neg_pair_set)
                     THEN /\ X_neg' = Append(X_neg,
                               extract_features(_feat_to_record(a_doc),
                                 _feat_to_record(b_doc),
                                 MakePairContext(runs_by_id, r1, r2)))
                          /\ meta_neg' = Append(meta_neg,
                               NegMeta(a_doc.id, b_doc.id, "", "easy"))
                          /\ neg_pair_set' = neg_pair_set \cup {<<a_doc.id, b_doc.id>>}
                     ELSE UNCHANGED negVars
  /\ UNCHANGED <<inputVars, pc, builds, npRng, loadVars, posVars, mp_i, a_i,
                 targetVars, outVars, exit_code, saved, prev_out, fxVars,
                 fileVars, svcVars, trainVars>>

\* Line 318: the loop condition is false.
EasyDone ==
  /\ pc = "easy"
  /\ ~EasyLoopCond(Len(X_neg), CountType(meta_neg, "easy"), target_hard,
                   target_easy, easy_attempts)
  /\ pc' = "shuffle"
  /\ UNCHANGED <<inputVars, builds, rngVars, loadVars, posVars, mp_i, a_i,
                 targetVars, negVars, easy_attempts, outVars, exit_code, saved,
                 prev_out, fxVars,
                 fileVars, svcVars, trainVars>>

\* Lines 385-401: concatenate, shuffle in lockstep, return.
Shuffle ==
  /\ pc = "shuffle"
  /\ LET X0 == X_pos \o X_neg
         y0 == [i \in 1..Len(X_pos) |-> 1] \o [i \in 1..Len(X_neg) |-> 0]
         m0 == meta_pos \o meta_neg
         p == NpPermutation(npRng, Len(X0))
         indices == p.perm
     IN  /\ X' = [i \in 1..Len(X0) |-> X0[indices[i]]]
         /\ y' = [i \in 1..Len(X0) |-> y0[indices[i]]]
         /\ metadata' = [i \in 1..Len(X0) |-> m0[indices[i]]]
         /\ npRng' = p.rng
  /\ pc' = "done"
  /\ UNCHANGED <<inputVars, builds, pyRng, loadVars, posVars, mp_i, a_i,
                 targetVars, negVars, easy_attempts, exit_code, saved, prev_out,
                 fxVars,
                 fileVars, svcVars, trainVars>>

\* __main__, line 442: save_dataset(args.output, X, y, meta).
Save ==
  /\ pc = "done"
  /\ saved' = Some([X |-> X, y |-> y, feature_names |-> FEATURE_NAMES,
                    metadata_json |-> metadata])
  /\ pc' = "saved"
  /\ UNCHANGED <<inputVars, builds, rngVars, loadVars, posVars, mp_i, a_i,
                 targetVars, negVars, easy_attempts, outVars, exit_code, prev_out,
                 fxVars,
                 fileVars, svcVars, trainVars>>

\* The process calls build_dataset again (same arguments, same snapshot):
\* the locals are fresh, the module-level generators are not.
BuildAgain ==
  /\ pc = "saved"
  /\ builds < MaxBuilds
  /\ prev_out' = Some(<<X, y, metadata>>)
  /\ pc' = "idle"
  /\ matched_pairs' = << >> /\ runs_by_id' = EmptyDict
  /\ matched_feature_set' = {} /\ features_by_id' = EmptyDict
  /\ all_features_for_runs' = EmptyDict /\ all_run_ids' = << >>
  /\ X_pos' = << >> /\ meta_pos' = << >> /\ mp_i' = 0 /\ a_i' = 0
  /\ n_pos' = 0 /\ target_neg' = 0 /\ target_hard' = 0 /\ target_easy' = 0
  /\ X_neg' = << >> /\ meta_neg' = << >> /\ neg_pair_set' = {}
  /\ easy_attempts' = 0
  /\ X' = << >> /\ y' = << >> /\ metadata' = << >>
  /\ UNCHANGED <<inputVars, builds, rngVars, exit_code, saved, fxVars,
                 fileVars, svcVars, trainVars>>

Next ==
  \/ BuildStart
  \/ PositiveStep
  \/ PositivesDone
  \/ HardNextPair
  \/ HardCandidate
  \/ EasyTooFewRuns
  \/ EasyAttempt
  \/ EasyDone
  \/ Shuffle
  \/ Save
  \/ BuildAgain

Spec == Init /\ [][Next]_vars

\* The process is single-threaded and never blocks inside the easy-negative
\* loop: an enabled step of the loop is eventually taken.
FairSpec == Spec /\ WF_vars(EasyTooFewRuns \/ EasyAttempt \/ EasyDone)


\* ========================================================================
\* Properties of build_dataset
\* ========================================================================
Returned == pc \in {"done", "saved"}

NegRows == {i \in 1..Len(metadata) : metadata[i].label = 0}

IsMatchedIds(a, b) ==
  \E k \in 1..Len(matched_pairs) :
    \/ (matched_pairs[k].run_a_feature_id = a /\ matched_pairs[k].run_b_feature_id = b)
    \/ (matched_pairs[k].run_a_feature_id = b /\ matched_pairs[k].run_b_feature_id = a)

InSomeMatch(f) ==
  \E k \in 1..Len(matched_pairs) :
    matched_pairs[k].run_a_feature_id = f \/ matched_pairs[k].run_b_feature_id = f

\* C1 -- Leakage invariant: in every returned dataset no label-0 sample has,
\* in either order, the identifier pair of a matched pair loaded from the store.
C1_NoLeakage ==
  Returned =>
    \A i \in NegRows : ~IsMatchedIds(metadata[i].feature_a, metadata[i].feature_b)

\* A returned dataset holding a negative whose two records both take part in
\* matched pairs (so the leakage test decided it), from a store with a pair
\* document written in the reverse orientation.
C1_Witness ==
  /\ pc = "done"
  /\ \E k \in 1..Len(matched_pairs) : matched_pairs[k].run_a_run_id = "rB"
  /\ \E i \in NegRows :
        InSomeMatch(metadata[i].feature_a) /\ InSomeMatch(metadata[i].feature_b)

\* C2 (as claimed) -- the number of samples tagged "easy" in the built dataset
\* never exceeds targetEasy.
C2_EasyWithinOwnTarget ==
  Returned => CountType(metadata, "easy") <= target_easy

\* C2 (amended) -- easy mining fills toward the total: the number of samples
\* tagged "easy" never exceeds targetNegatives minus the number tagged "hard".
C2_EasyFillsTotal ==
  Returned =>
    CountType(metadata, "easy") <= target_neg - CountType(metadata, "hard")

\* A returned dataset in which hard mining fell short and easy mining went
\* beyond its own target.
C2_Witness ==
  /\ pc = "done"
  /\ CountType(metadata, "hard") < target_hard
  /\ CountType(metadata, "easy") > target_easy

\* floor(num / den) for den > 0, stated by its defining inequalities.
IsFloorOf(k, num, den) == k * den <= num /\ num < (k + 1) * den

TargetsSet == pc \in {"hard", "easy", "shuffle", "done", "saved"}

\* C3 -- targetNegatives = floor(positiveCount x negRatio),
\* targetHard = floor(0.6 x targetNegatives), targetEasy = targetNegatives -
\* targetHard, hence targetHard + targetEasy = targetNegatives; 10 positives
\* at ratio 3.0 give 30, 18 and 12.
C3_Targets ==
  TargetsSet =>
    /\ n_pos >= 1
    /\ IsFloorOf(target_neg, n_pos * neg_pos_ratio, 100)
    /\ IsFloorOf(target_hard, 6 * target_neg, 10)
    /\ target_easy = target_neg - target_hard
    /\ target_hard + target_easy = target_neg
    /\ (n_pos = 10 /\ neg_pos_ratio = 300 =>
          target_neg = 30 /\ target_hard = 18 /\ target_easy = 12)

\* The targets of ten positives at ratio 3.0 have been computed.
C3_Witness ==
  /\ pc = "hard" /\ n_pos = 10 /\ neg_pos_ratio = 300
  /\ target_neg = 30 /\ target_hard = 18 /\ target_easy = 12

HardCount == CountType(meta_neg, "hard")

\* C4 -- hard mining is a single pass: the hard count never exceeds
\* targetHard; once targetHard is reached no further candidate is examined or
\* added; the scan position only moves forward and the pass is entered once
\* per build, so no matched pair is scanned twice and a shortfall stands.
C4_HardSinglePass ==
  /\ [](HardCount <= target_hard)
  /\ [][ pc = "hard" =>
           /\ pc' \in {"hard", "easy"}
           /\ (pc' = "hard" =>
                 \/ mp_i' > mp_i
                 \/ (mp_i' = mp_i /\ a_i' > a_i))
           /\ (Len(X_neg) >= target_hard =>
                 /\ X_neg' = X_neg /\ meta_neg' = meta_neg
                 /\ (pc' = "easy" \/ (mp_i' = mp_i + 1 /\ a_i' = 0)))
       ]_vars
  /\ [][ pc # "hard" /\ pc' = "hard" => pc = "positives" ]_vars
  /\ [][ (pc = "easy" \/ pc = "shuffle" \/ pc = "done" \/ pc = "saved") =>
           (CountType(meta_neg', "hard") = CountType(meta_neg, "hard")
              \/ pc' = "idle") ]_vars

\* Hard mining stopped at the target while matched pairs were still unscanned.
C4_Witness ==
  /\ pc = "easy"
  /\ target_hard > 0 /\ HardCount = target_hard
  /\ mp_i < Len(matched_pairs)

\* C5 -- the total number of negatives never exceeds targetNegatives =
\* targetHard + targetEasy, during mining and in the returned dataset.
C5_TotalNegativesBounded ==
  /\ Len(X_neg) <= target_hard + target_easy
  /\ target_hard + target_easy = target_neg
  /\ Returned => Cardinality({i \in 1..Len(y) : y[i] = 0}) <= target_neg

\* A returned dataset whose negatives, some of them easy, fill the target.
C5_Witness ==
  /\ pc = "done"
  /\ target_neg > 0
  /\ Cardinality({i \in 1..Len(y) : y[i] = 0}) = target_neg
  /\ CountType(metadata, "easy") > 0

\* C6 -- easy mining terminates: each iteration consumes one attempt, the
\* attempts never exceed 20 x targetEasy, with fewer than two runs the loop
\* exits at once, and the loop is always left (under-filled or not).
C6_EasyTerminates ==
  /\ [](easy_attempts <= 20 * target_easy)
  /\ [][ pc = "easy" /\ pc' = "easy" => easy_attempts' = easy_attempts + 1 ]_vars
  /\ [][ pc = "easy" /\ Len(all_run_ids) < 2 =>
           pc' = "shuffle" /\ X_neg' = X_neg ]_vars
  /\ ((pc = "easy") ~> (pc = "shuffle"))

\* The attempt budget ran out with the negatives under-filled.
C6_Witness ==
  /\ pc = "shuffle"
  /\ target_easy > 0
  /\ easy_attempts = 20 * target_easy
  /\ Len(X_neg) < target_neg

\* C7 -- reproducibility: a build returns the same rows, labels and metadata,
\* in the same order, as the previous build of the process with the same seed
\* and snapshot, whatever state the earlier build left behind.
C7_Reproducible ==
  (Returned /\ ~IsNone(prev_out)) => <<X, y, metadata>> = Val(prev_out)

\* A second build has returned a shuffled dataset holding easy negatives.
C7_Witness ==
  /\ pc = "done" /\ builds = 2 /\ ~IsNone(prev_out)
  /\ CountType(metadata, "easy") > 1
  /\ \E i \in 1..Len(y) - 1 : y[i] = 0 /\ y[i + 1] = 1

Resolvable(mp) ==
  /\ mp.run_a_feature_id \in DOMAIN features_by_id
  /\ mp.run_b_feature_id \in DOMAIN features_by_id

NoData ==
  \/ matched_pairs = << >>
  \/ \A k \in 1..Len(matched_pairs) : ~Resolvable(matched_pairs[k])

\* C8 -- data absence is fatal: with no matched pairs, or none resolvable, the
\* build never gets to negative mining and returns nothing; it exits with
\* status 1 and nothing is saved.
C8_DataAbsenceFatal ==
  /\ (pc \in {"hard", "easy", "shuffle", "done", "saved"} => ~NoData)
  /\ (pc = "aborted" =>
        /\ NoData
        /\ exit_code = Some(1)
        /\ X_neg = << >> /\ easy_attempts = 0
        /\ X = << >> /\ y = << >> /\ metadata = << >>
        /\ IsNone(saved))
  /\ (pc # "aborted" => IsNone(exit_code))

\* The build aborted although the store held matched pairs: none resolved.
C8_Witness ==
  pc = "aborted" /\ matched_pairs # << >> /\ exit_code = Some(1)

CatalogDocs == Find(db, "features")

DocDist(d) == Val(d.corrected_distance_ft)

DocClockDiff(a, b) ==
  LET raw == Abs(Val(a.clock_decimal) - Val(b.clock_decimal))
  IN  IF raw > 600 THEN 1200 - raw ELSE raw

\* No unmatched, non-reference record of a pair's older run lies within 30 ft
\* of the pair's newer record and inside the 2 h clock window.
NoNearMissCandidate ==
  \A k \in 1..Len(matched_pairs) :
    \A i, j \in 1..Len(CatalogDocs) :
      LET a == CatalogDocs[i]
          b == CatalogDocs[j]
      IN  ( /\ b.id = matched_pairs[k].run_b_feature_id
            /\ a.run_id = matched_pairs[k].run_a_run_id
            /\ ~IsMatchedIds(a.id, b.id)
            /\ ~a.is_reference_point )
          => \/ Abs(DocDist(a) - DocDist(b)) > 3000
             \/ ( /\ ~IsNone(a.clock_decimal) /\ ~IsNone(b.clock_decimal)
                  /\ DocClockDiff(a, b) > 200 )

\* No two records of different runs are 50 ft or more apart.
NoFarCrossRunPair ==
  \A i, j \in 1..Len(CatalogDocs) :
    CatalogDocs[i].run_id # CatalogDocs[j].run_id
      => Abs(DocDist(CatalogDocs[i]) - DocDist(CatalogDocs[j])) < 5000

\* C9 -- negative shortfall is not fatal: with 4 resolvable matched pairs, no
\* near-miss candidate and no far cross-run pair, the build does not abort and
\* returns exactly 4 rows, all labelled 1, with 0 hard and 0 easy negatives.
C9_ShortfallNotFatal ==
  (n_pos = 4 /\ NoNearMissCandidate /\ NoFarCrossRunPair) =>
    /\ pc # "aborted"
    /\ X_neg = << >>
    /\ (Returned =>
          /\ Len(X) = 4 /\ Len(y) = 4 /\ Len(metadata) = 4
          /\ \A i \in 1..Len(y) : y[i] = 1 /\ metadata[i].label = 1
          /\ CountType(metadata, "hard") = 0
          /\ CountType(metadata, "easy") = 0)

\* Such a build returned, having spent its easy attempts.
C9_Witness ==
  /\ pc = "done" /\ n_pos = 4 /\ easy_attempts > 0
  /\ NoNearMissCandidate /\ NoFarCrossRunPair


\* The samples before and after the shuffle, as <<row, label, metadata>>.
SamplesIn ==
  [ j \in 1..(Len(X_pos) + Len(X_neg)) |->
      IF j <= Len(X_pos) THEN <<X_pos[j], 1, meta_pos[j]>>
      ELSE <<X_neg[j - Len(X_pos)], 0, meta_neg[j - Len(X_pos)]>> ]

SamplesOut == [ i \in 1..Len(X) |-> <<X[i], y[i], metadata[i]>> ]

Occurrences(s, v) == Cardinality({i \in 1..Len(s) : s[i] = v})

\* C18 -- the returned dataset is a permutation of positives followed by
\* negatives: row, label and metadata move together, every sample occurs as
\* often after the shuffle as before it, the metadata's label equals y[i],
\* metadata without neg_type has label 1 and metadata tagged hard or easy has
\* label 0.
C18_LockstepShuffle ==
  Returned =>
    /\ Len(X) = Len(y) /\ Len(y) = Len(metadata)
    /\ Len(X) = Len(X_pos) + Len(X_neg)
    /\ \A i \in 1..Len(X) :
         /\ Occurrences(SamplesOut, SamplesOut[i])
              = Occurrences(SamplesIn, SamplesOut[i])
         /\ y[i] \in {0, 1}
         /\ metadata[i].label = y[i]
         /\ (IsNone(metadata[i].neg_type) <=> y[i] = 1)
         /\ (metadata[i].neg_type \in {Some("hard"), Some("easy")} <=> y[i] = 0)

\* The shuffle moved a negative in front of a positive in a dataset holding
\* hard and easy negatives.
C18_Witness ==
  /\ Returned
  /\ CountType(metadata, "hard") > 0 /\ CountType(metadata, "easy") > 0
  /\ \E i \in 1..(Len(y) - 1) : y[i] = 0 /\ y[i + 1] = 1
  /\ SamplesOut # SamplesIn

InCatalog(id) == \E j \in 1..Len(CatalogDocs) : CatalogDocs[j].id = id

ResolvablePairs(n) ==
  {k \in 1..n : k <= Len(matched_pairs) /\ Resolvable(matched_pairs[k])}

\* The k-th resolvable matched pair.
NthResolvable(k) ==
  CHOOSE i \in ResolvablePairs(Len(matched_pairs)) :
    Cardinality(ResolvablePairs(i)) = k

\* C19 -- the number of label-1 samples equals the number of matched pairs
\* whose two records both resolve in the loaded record catalog; a pair with an
\* unresolvable record is skipped, the build goes on (it aborts only when no
\* pair resolves), and the sample of every other pair is the one computed from
\* that pair's own records.
C19_PositiveMining ==
  /\ (pc = "positives" =>
        Len(X_pos) = Cardinality(ResolvablePairs(mp_i - 1)))
  /\ (pc \in {"hard", "easy", "shuffle", "done", "saved", "aborted"} =>
        LET total == Cardinality(ResolvablePairs(Len(matched_pairs)))
        IN  /\ n_pos = total
            /\ Len(X_pos) = total /\ Len(meta_pos) = total
            /\ (pc = "aborted" <=> total = 0)
            /\ \A k \in 1..total :
                 LET mp == matched_pairs[NthResolvable(k)]
                 IN  /\ meta_pos[k].feature_a = mp.run_a_feature_id
                     /\ meta_pos[k].feature_b = mp.run_b_feature_id
                     /\ meta_pos[k].label = 1
                     /\ X_pos[k][1] =
                          Abs(_feat_to_record(features_by_id[mp.run_a_feature_id]).corrected_distance_ft
                              - _feat_to_record(features_by_id[mp.run_b_feature_id]).corrected_distance_ft))
  /\ (Returned =>
        /\ Occurrences(y, 1) = Cardinality(ResolvablePairs(Len(matched_pairs)))
        /\ Occurrences(y, 1) =
             Cardinality({k \in 1..Len(matched_pairs) :
                            /\ InCatalog(matched_pairs[k].run_a_feature_id)
                            /\ InCatalog(matched_pairs[k].run_b_feature_id)}))

\* A dataset was returned from a store whose second matched pair names a
\* record the catalog does not hold: two positives out of three pairs.
C19_Witness ==
  /\ Returned
  /\ Len(matched_pairs) = 3
  /\ ~Resolvable(matched_pairs[2])
  /\ matched_pairs[2].run_a_feature_id \notin {d.id : d \in Range(CatalogDocs)}
  /\ Occurrences(y, 1) = 2

HardRows == {i \in 1..Len(meta_neg) : meta_neg[i].neg_type = Some("hard")}

\* C20 -- every hard negative is a near miss of the matched pair it was mined
\* from: its candidate record belongs to that pair's older run, lies within
\* 30 of the pair's newer record, and, when both clocks are present, within
\* 2 hours of it on the dial; slot 0 of its vector is at most 30 and slot 1
\* is the sentinel or at most 2.
C20_HardNegativeNearMiss ==
  \A i \in HardRows :
    LET m == meta_neg[i]
        a == features_by_id[m.feature_a]
        b == features_by_id[m.feature_b]
        a_rec == _feat_to_record(a)
        b_rec == _feat_to_record(b)
        ca == a_rec.clock_position_hrs
        cb == b_rec.clock_position_hrs
        raw == Abs(Val(ca) - Val(cb))
    IN  /\ \E k \in 1..Len(matched_pairs) :
             /\ matched_pairs[k].run_b_feature_id = m.feature_b
             /\ matched_pairs[k].job_id = m.job_id
             /\ a.run_id = matched_pairs[k].run_a_run_id
        /\ Abs(a_rec.corrected_distance_ft - b_rec.corrected_distance_ft) <= 3000
        /\ (~IsNone(ca) /\ ~IsNone(cb) =>
              (IF raw > 600 THEN 1200 - raw ELSE raw) <= 200)
        /\ X_neg[i][1] >= 0 /\ X_neg[i][1] <= 3000
        /\ (X_neg[i][2] = -100 \/ (X_neg[i][2] >= 0 /\ X_neg[i][2] <= 200))
        /\ (X_neg[i][2] = -100 <=> (IsNone(ca) \/ IsNone(cb)))

\* A returned dataset holds a hard negative whose clocks are both present, and
\* the store held a candidate within 30 that the clock window excluded.
C20_Witness ==
  /\ Returned
  /\ \E i \in HardRows : X_neg[i][2] >= 0 /\ X_neg[i][1] > 0
  /\ \E k \in 1..Len(matched_pairs) : \E j \in 1..Len(CatalogDocs) :
       LET a == CatalogDocs[j]
           b == features_by_id[matched_pairs[k].run_b_feature_id]
       IN  /\ matched_pairs[k].run_b_feature_id \in DOMAIN features_by_id
           /\ a.run_id = matched_pairs[k].run_a_run_id
           /\ ~a.is_reference_point
           /\ Abs(DocDist(a) - DocDist(b)) <= 3000
           /\ ClockTooFar(_feat_to_record(a), _feat_to_record(b))
           /\ \A i \in 1..Len(meta_neg) : meta_neg[i].feature_a # a.id

EasyRows == {i \in 1..Len(meta_neg) : meta_neg[i].neg_type = Some("easy")}

\* The longitudinal distance between the records of two feature documents.
RecDist(a, b) ==
  Abs(_feat_to_record(a).corrected_distance_ft
      - _feat_to_record(b).corrected_distance_ft)

C22_NoReferenceInNegatives ==
  \A i \in 1..Len(meta_neg) :
    /\ ~features_by_id[meta_neg[i].feature_a].is_reference_point
    /\ ~features_by_id[meta_neg[i].feature_b].is_reference_point

\* C23 -- negatives are never duplicated: across hard and easy mining no two
\* negative samples of one dataset refer to the same pair of records, in the
\* same order or swapped.
C23_NoDuplicateNegatives ==
  \A i, j \in 1..Len(meta_neg) :
    i # j =>
      /\ <<meta_neg[i].feature_a, meta_neg[i].feature_b>>
           # <<meta_neg[j].feature_a, meta_neg[j].feature_b>>
      /\ <<meta_neg[i].feature_a, meta_neg[i].feature_b>>
           # <<meta_neg[j].feature_b, meta_neg[j].feature_a>>

\* The collections of the store whose name is, case-insensitively, one of the
\* alternate spellings of the matched-pairs collection.
AltPairCollections ==
  {i \in 1..Len(db) :
     \E k \in 1..Len(AltPairNames) : Lower(db[i].name) = Lower(AltPairNames[k])}

\* C27 -- collection-name fallback finds the data: when the default
\* matched-pairs collection returns no documents but a collection named like
\* one of the alternate spellings holds matched pairs, the build does not
\* abort for lack of pairs and works on the documents of one such collection.
C27_CollectionFallback ==
  ( /\ pc # "idle"
    /\ Find(db, "matchedpairs") = << >>
    /\ \E i \in AltPairCollections : db[i].docs # << >> ) =>
    /\ matched_pairs # << >>
    /\ \E i \in AltPairCollections : matched_pairs = db[i].docs

\* C28 -- every easy negative pairs two records of incompatible types: the
\* type-compatibility slot of every sample tagged "easy" is 0.0, its records
\* being neither of identical nor of table-compatible type.
C28_EasyNegativeIncompatibleTypes ==
  \A i \in EasyRows :
    LET a_rec == _feat_to_record(features_by_id[meta_neg[i].feature_a])
        b_rec == _feat_to_record(features_by_id[meta_neg[i].feature_b])
    IN  /\ X_neg[i][8] = 0
        /\ a_rec.event_type # b_rec.event_type
        /\ <<a_rec.event_type, b_rec.event_type>> \notin DOMAIN TYPE_COMPAT

\* ========================================================================
\* models/xgboost_model.py and main.py : the inference service
\*
\* Scores, probabilities, AUC values and confidences of a response are
\* fixed-point integers in ten-thousandths (0.7 is 7000); feature values stay
\* in hundredths and feature importances are in millionths.
\* ========================================================================

\* float64 NaN: what a slot of the vector holds after None was assigned to it.
NaN == -987654321

\* round(num / den) for den > 0.
RoundDiv(num, den) ==
  IF num >= 0 THEN (2 * num + den) \div (2 * den)
  ELSE -((2 * (-num) + den) \div (2 * den))

Min2(a, b) == IF a <= b THEN a ELSE b
Max2(a, b) == IF a >= b THEN a ELSE b

\* np.clip(x, 0.0, 1.0)
Clip01(x) == IF x = NaN THEN NaN ELSE Max2(0, Min2(10000, x))

\* dict.get(k, default)
DictGet(d, k, default) == IF k \in DOMAIN d THEN d[k] ELSE default

\* os.path.exists(path)
Exists(f) == f.state # "absent"

\* open(path) and the parse of its content both succeed
Loads(f) == f.state = "valid"

ValidFile(content) == [state |-> "valid", content |-> content]

\* What the artifact directory may hold when the service starts.
ModelFiles ==
  { AbsentFile, ValidFile("clf"),
    [state |-> "corrupt", content |-> None],
    [state |-> "unreadable", content |-> None] }

MetricsFiles ==
  { AbsentFile,
    ValidFile(("holdout_auc" :> 9150) @@ ("n_samples" :> 40)),
    ValidFile("n_samples" :> 40),
    [state |-> "corrupt", content |-> None],
    [state |-> "unreadable", content |-> None] }

FiFiles ==
  { AbsentFile,
    ValidFile([n \in Range(FEATURE_NAMES) |->
                 IF n = "abs_delta_distance_ft" THEN 400000
                 ELSE IF n = "type_compatibility" THEN 250000
                 ELSE IF n = "run_gap_years" THEN 50000 ELSE 25000]),
    ValidFile("abs_delta_distance_ft" :> 1000000),
    [state |-> "corrupt", content |-> None],
    [state |-> "unreadable", content |-> None] }

\* __init__ lines 91-94.
NewAdapter ==
  [ _model |-> None, _trained |-> FALSE, _metrics |-> EmptyDict,
    _feature_importance |-> EmptyDict, _ready |-> FALSE ]

\* The try block of __init__ is a sequence of steps over [self, exc]: a step
\* that raises sets exc and the steps after it do not run.
\* Lines 99-102: import xgboost, create the classifier, load the model file.
LoadModelStep(st, mf, xgb) ==
  IF ~xgb THEN [st EXCEPT !.exc = TRUE]
  ELSE IF ~Loads(mf)
       THEN [self |-> [st.self EXCEPT !._model = Some("unfitted")], exc |-> TRUE]
       ELSE [self |-> [st.self EXCEPT !._model = Some(mf.content),
                                      !._trained = TRUE],
             exc |-> FALSE]

\* Lines 106-110.
LoadMetricsStep(st, tf) ==
  IF st.exc \/ ~Exists(tf) THEN st
  ELSE IF Loads(tf) THEN [st EXCEPT !.self._metrics = tf.content]
       ELSE [st EXCEPT !.exc = TRUE]

\* Lines 113-115.
LoadImportanceStep(st, ff) ==
  IF st.exc \/ ~Exists(ff) THEN st
  ELSE IF Loads(ff) THEN [st EXCEPT !.self._feature_importance = ff.content]
       ELSE [st EXCEPT !.exc = TRUE]

\* Mutant: the handler leaves the adapter as the failed load left it.
LoadFailedKeepsModel(self) == self

\* Lines 117-121: except Exception.
LoadFailed(self) == [self EXCEPT !._model = None, !._trained = FALSE]

\* XGBoostSimilarityModel.__init__, lines 90-126.
XGBoostSimilarityModel(mf, tf, ff, xgb) ==
  LET st0 == [self |-> NewAdapter, exc |-> FALSE]
      st3 == LoadImportanceStep(
               LoadMetricsStep(LoadModelStep(st0, mf, xgb), tf), ff)
      loaded == IF ~Exists(mf) THEN NewAdapter
                ELSE IF st3.exc THEN LoadFailed(st3.self)
                ELSE st3.self
  IN  [loaded EXCEPT !._ready = TRUE]

is_trained(self) == self._trained

\* Requests (SimilarityRequest, FeatureVector): lines 37-60.
FeatureVector(type, distance, clock, depth, length, width) ==
  [ type |-> type, distance |-> distance, clock |-> clock,
    depth_percent |-> depth, length_in |-> length, width_in |-> width,
    wall_thickness_in |-> None, joint_number |-> None,
    dist_to_upstream_weld_ft |-> None ]

SimilarityRequest(older, newer, det, dres, cres, gap, weight, dtw, icp, anchor) ==
  [ older |-> older, newer |-> newer, deterministic_score |-> det,
    distance_residual_ft |-> dres, clock_residual_hrs |-> cres,
    run_gap_years |-> gap, api_1163_tool_weight |-> weight,
    dtw_residual |-> dtw, icp_residual |-> icp, anchor_density |-> anchor ]

Requests ==
  { SimilarityRequest(
      FeatureVector("METAL_LOSS", 10000, Some(300), Some(2000), Some(150), Some(100)),
      FeatureVector("CORROSION", 10200, Some(350), Some(2500), Some(200), Some(100)),
      8000, 200, Some(50), Some(500), Some(90), Some(40), Some(120), Some(300)),
    SimilarityRequest(
      FeatureVector("DENT", 500, None, None, None, None),
      FeatureVector("CRACK", 500, None, None, None, None),
      0, 0, None, None, None, None, None, None),
    SimilarityRequest(
      FeatureVector("metal_loss", 70000, Some(1150), Some(0), None, Some(0)),
      FeatureVector("METAL_LOSS", 70400, Some(50), Some(0), Some(100), Some(0)),
      10000, 400, Some(700), Some(300), None, None, None, None),
    SimilarityRequest(
      FeatureVector("DENT", 2000, Some(600), Some(1000), Some(300), None),
      FeatureVector("DEFORMATION", 3000, Some(600), Some(4000), Some(100), None),
      5550, 1000, None, None, Some(85), None, None, None) }

\* _req_to_feature_dicts, lines 132-165.
FeatureDict(fv) ==
     ("event_type_canonical" :> fv.type)
  @@ ("corrected_distance_ft" :> fv.distance)
  @@ ("log_distance_ft" :> fv.distance)
  @@ ("clock_position_hrs" :> fv.clock)
  @@ ("depth_percent" :> fv.depth_percent)
  @@ ("length_in" :> fv.length_in)
  @@ ("width_in" :> fv.width_in)
  @@ ("wall_thickness_in" :> fv.wall_thickness_in)
  @@ ("joint_number" :> fv.joint_number)
  @@ ("dist_to_upstream_weld_ft" :> fv.dist_to_upstream_weld_ft)

_req_to_feature_dicts(r) ==
  [ older_dict |-> FeatureDict(r.older),
    newer_dict |-> FeatureDict(r.newer),
    context |->
         ("run_gap_years" :> r.run_gap_years)
      @@ ("api_1163_tool_weight" :> r.api_1163_tool_weight)
      @@ ("dtw_residual" :> r.dtw_residual)
      @@ ("icp_residual" :> r.icp_residual)
      @@ ("anchor_density" :> r.anchor_density) ]

\* features.py lines 184-197 / 198-211: AnomalyRecord built from a raw dict.
RecordFromDict(d) ==
  [ feature_id |-> DictGet(d, "feature_id", ""),
    run_id |-> DictGet(d, "run_id", ""),
    event_type |-> DictGet(d, "event_type", DictGet(d, "type", "OTHER")),
    corrected_distance_ft |->
      DictGet(d, "corrected_distance_ft", DictGet(d, "distance", 0)),
    log_distance_ft |-> DictGet(d, "log_distance_ft", DictGet(d, "distance", 0)),
    clock_position_hrs |->
      DictGet(d, "clock_position_hrs", DictGet(d, "clock", None)),
    depth_percent |-> DictGet(d, "depth_percent", None),
    length_in |-> DictGet(d, "length_in", None),
    width_in |-> DictGet(d, "width_in", None),
    wall_thickness_in |-> DictGet(d, "wall_thickness_in", None),
    joint_number |-> DictGet(d, "joint_number", None),
    dist_to_upstream_weld_ft |-> DictGet(d, "dist_to_upstream_weld_ft", None) ]

\* A float64 slot assigned an Optional[float] argument: None is stored as NaN.
Float64(o) == IF IsNone(o) THEN NaN ELSE Val(o)

\* features.py lines 170-218.  The keyword arguments arrive as Optionals: the
\* caller passes context.get(...) explicitly, so the defaults of the signature
\* (5.0, 0.85) apply only when the caller leaves the argument out.
extract_features_from_dicts(older, newer, gap, weight, dtw, icp, anchor) ==
  extract_features(
    RecordFromDict(older), RecordFromDict(newer),
    [ run_gap_years |-> Float64(gap),
      api_1163_tool_weight |-> Float64(weight),
      dtw_residual |-> dtw, icp_residual |-> icp, anchor_density |-> anchor ])

\* What the loaded classifier may answer for a vector (xgboost is a library:
\* its numbers are not computed here).  Lines 195-199: predict_proba, or
\* predict when predict_proba raises.
\* When predict raises as well (a vector the loaded booster rejects), the
\* exception leaves predict.
ModelOutputs ==
  { [via |-> "predict_proba", proba |-> p] : p \in {0, 4999, 5000, 9731} }
  \cup { [via |-> "predict", proba |-> p] : p \in {0, 10000} }
  \cup { [via |-> "raise", proba |-> 0] }

NPresent(features) ==
  Cardinality({i \in 1..Len(features) : features[i] # Sentinel})

\* Lines 213-217.
Contributions(features, fi) ==
  [ name \in Range(FEATURE_NAMES) |->
      LET i == CHOOSE j \in 1..Len(FEATURE_NAMES) : FEATURE_NAMES[j] = name
          val == features[i]
          imp == DictGet(fi, name, 0)
      IN  IF val = Sentinel THEN None
          ELSE IF val = NaN THEN Some(NaN)
          ELSE Some(RoundDiv(val * imp, 100)) ]

\* _predict_xgboost, lines 181-191: the 13-slot vector built from a request.
InferenceFeatures(r) ==
  LET d == _req_to_feature_dicts(r)
  IN  extract_features_from_dicts(
        d.older_dict, d.newer_dict,
        DictGet(d.context, "run_gap_years", None),
        DictGet(d.context, "api_1163_tool_weight", None),
        DictGet(d.context, "dtw_residual", None),
        DictGet(d.context, "icp_residual", None),
        DictGet(d.context, "anchor_density", None))

\* _predict_xgboost, lines 179-234.
_predict_xgboost(self, r, out) ==
  LET features == InferenceFeatures(r)
      similarity == Clip01(out.proba)
      model_auc == DictGet(self._metrics, "holdout_auc", 7000)
      n_present == NPresent(features)
      ml_confidence == Clip01(RoundDiv(model_auc * n_present, NUM_FEATURES))
      adjusted == RoundDiv(r.deterministic_score * 8 + similarity * 2, 10)
  IN  [ ml_similarity_score |-> similarity,
        ml_confidence |-> ml_confidence,
        adjusted_score |-> adjusted,
        explanation |->
          [ text |-> "XGBoost P(match)", n_present |-> n_present,
            model_auc |-> model_auc,
            top_features |->
              IF self._feature_importance = EmptyDict
              THEN "no importance data" ELSE "listed" ],
        model_id |-> "xgboost-similarity",
        model_version |-> "1.0.0",
        experimental |-> TRUE,
        feature_contributions |->
          Some(Contributions(features, self._feature_importance)) ]

\* exp(-(r^2) / 8) for the residuals of Requests (0, 2, 4 and 10 ft).
GaussDecay(dres) ==
  CASE dres = 0 -> 10000
    [] Abs(dres) = 200 -> 6065
    [] Abs(dres) = 400 -> 1353
    [] OTHER -> 0

\* str.upper() on the type names of Requests.
Upper(t) == IF t = "metal_loss" THEN "METAL_LOSS" ELSE t

\* Lines 277-286: mean of the length and width ratios that can be formed.
RatioOf(a, b) ==
  IF ~IsNone(a) /\ ~IsNone(b) /\ Max2(Val(a), Val(b)) > 0
  THEN << RoundDiv(Min2(Val(a), Val(b)) * 10000, Max2(Val(a), Val(b))) >>
  ELSE << >>

\* Mutant: the fallback response is built without naming its model id, so the
\* schema default applies.
PredictAnalyticalDefaultId == "xgboost-similarity"

\* Line 329.
FallbackModelId == "xgboost-similarity-fallback"

\* _predict_analytical, lines 248-332.
_predict_analytical(r) ==
  LET dist_sim == GaussDecay(r.distance_residual_ft)
      hrs0 == Abs(Val(r.clock_residual_hrs))
      hrs == IF hrs0 > 600 THEN 1200 - hrs0 ELSE hrs0
      has_clock == ~IsNone(r.clock_residual_hrs)
      clock_sim == 10000 - RoundDiv(hrs * 10000, 600)
      type_a == Upper(r.older.type)
      type_b == Upper(r.newer.type)
      type_sim == IF type_a = type_b THEN 10000
                  ELSE IF <<type_a, type_b>> \in DOMAIN TYPE_COMPAT
                       THEN TYPE_COMPAT[<<type_a, type_b>>] * 100
                       ELSE 3000
      od == r.older.depth_percent
      nd == r.newer.depth_percent
      depth_sim ==
        IF ~IsNone(od) /\ ~IsNone(nd)
        THEN (IF Max2(Val(od), Val(nd)) > 1
              THEN RoundDiv(Min2(Val(od), Val(nd)) * 10000, Max2(Val(od), Val(nd)))
              ELSE 10000)
        ELSE 5000
      geom_scores == RatioOf(r.older.length_in, r.newer.length_in)
                     \o RatioOf(r.older.width_in, r.newer.width_in)
      geom_sim ==
        IF Len(geom_scores) = 2 THEN RoundDiv(geom_scores[1] + geom_scores[2], 2)
        ELSE IF Len(geom_scores) = 1 THEN geom_scores[1]
        ELSE 5000
      similarity ==
        Clip01(IF has_clock
               THEN RoundDiv(dist_sim * 30 + clock_sim * 20 + type_sim * 20
                             + depth_sim * 15 + geom_sim * 15, 100)
               ELSE RoundDiv(dist_sim * 30 + type_sim * 20
                             + depth_sim * 15 + geom_sim * 15, 80))
      data_completeness ==
        RoundDiv((10 + (IF has_clock THEN 8 ELSE 0)
                     + (IF ~IsNone(od) THEN 7 ELSE 0)
                     + (IF ~IsNone(r.older.length_in) THEN 5 ELSE 0)) * 10000, 30)
  IN  [ ml_similarity_score |-> similarity,
        ml_confidence |-> Clip01(data_completeness),
        adjusted_score |-> RoundDiv(r.deterministic_score * 8 + similarity * 2, 10),
        explanation |->
          [ text |-> "Analytical fallback (no trained model)",
            has_clock |-> has_clock ],
        model_id |-> FallbackModelId,
        model_version |-> "1.0.0",
        experimental |-> TRUE,
        feature_contributions |-> None ]

\* predict, line 174.
UsesTrainedModel(self) == self._trained /\ ~IsNone(self._model)

\* Mutant: a call whose model raised demotes the adapter to fallback mode.
AfterPredictDemotes(self, out) ==
  IF UsesTrainedModel(self) /\ out.via = "raise" THEN LoadFailed(self) ELSE self

\* Lines 167-234 and 248-332 assign no attribute of self: the adapter after a
\* predict call is the adapter before it.
AfterPredict(self, out) == self

\* predict, lines 167-177.
predict(self, r, out) ==
  IF UsesTrainedModel(self) THEN _predict_xgboost(self, r, out)
  ELSE _predict_analytical(r)

\* A service process about to start, over any content of the artifact
\* directory.
InitService ==
  /\ snapshot = 1 /\ seed = 0 /\ neg_pos_ratio = 300
  /\ pc = "startup" /\ builds = 0
  /\ pyRng = 0 /\ npRng = 0
  /\ LocalsInit
  /\ exit_code = None /\ saved = None /\ prev_out = None
  /\ FxIdle /\ TrainIdle
  /\ model_file \in ModelFiles
  /\ metrics_file \in MetricsFiles
  /\ fi_file \in FiFiles
  /\ xgb_installed \in BOOLEAN
  /\ similarity_model = None /\ startup_error = None
  /\ req = None /\ resp = None /\ predict_error = None /\ n_predicts = 0

ServiceFrame ==
  UNCHANGED <<inputVars, builds, rngVars, loadVars, posVars, mp_i, a_i,
              targetVars, negVars, easy_attempts, outVars, exit_code, saved,
              prev_out, fxVars, fileVars, xgb_installed, trainVars>>

\* main.py lifespan, lines 43-58: the adapter is constructed at startup.
\* Nothing in __init__ outside its try block can raise.
Startup ==
  /\ pc = "startup"
  /\ similarity_model' =
       Some(XGBoostSimilarityModel(model_file, metrics_file, fi_file,
                                   xgb_installed))
  /\ startup_error' = None
  /\ pc' = "serving"
  /\ UNCHANGED <<req, resp, predict_error, n_predicts>>
  /\ ServiceFrame

\* main.py predict_similarity, lines 126-141.
PredictSimilarity ==
  /\ pc = "serving"
  /\ n_predicts < MaxPredicts
  /\ n_predicts' = n_predicts + 1
  /\ \E r \in Requests, out \in ModelOutputs :
       /\ req' = Some(r)
       /\ IF IsNone(similarity_model)
          THEN /\ resp' = None
               /\ predict_error' = Some("HTTPException 503")
               /\ UNCHANGED similarity_model
          ELSE /\ IF UsesTrainedModel(Val(similarity_model)) /\ out.via = "raise"
                  THEN /\ resp' = None
                       /\ predict_error' = Some("Exception in predict")
                  ELSE /\ resp' = Some(predict(Val(similarity_model), r, out))
                       /\ predict_error' = None
               /\ similarity_model' =
                    Some(AfterPredict(Val(similarity_model), out))
  /\ UNCHANGED <<pc, startup_error>>
  /\ ServiceFrame

\* main.py lifespan, lines 60-63.
Shutdown ==
  /\ pc = "serving"
  /\ similarity_model' = None
  /\ pc' = "stopped"
  /\ UNCHANGED <<startup_error, req, resp, predict_error, n_predicts>>
  /\ ServiceFrame

NextService == Startup \/ PredictSimilarity \/ Shutdown

SpecService == InitService /\ [][NextService]_vars

BadFile(f) == f.state = "corrupt" \/ f.state = "unreadable"

ArtifactMissingOrBad ==
  \/ model_file.state = "absent"
  \/ BadFile(model_file) \/ BadFile(metrics_file) \/ BadFile(fi_file)

\* C14 -- when the model artifact is missing, or one of the three artifact
\* files is corrupted or unreadable, construction of the adapter does not
\* raise, the adapter is in fallback mode (is_trained false, no model held),
\* and every predict call after it returns the analytical heuristic's response
\* and raises nothing.
C14_LoadFailureRecovered ==
  (pc = "serving" /\ ArtifactMissingOrBad) =>
    /\ startup_error = None
    /\ ~IsNone(similarity_model)
    /\ ~is_trained(Val(similarity_model))
    /\ IsNone(Val(similarity_model)._model)
    /\ Val(similarity_model)._ready
    /\ (n_predicts > 0 =>
          /\ predict_error = None
          /\ ~IsNone(resp)
          /\ Val(resp).model_id = "xgboost-similarity-fallback"
          /\ Val(resp).explanation.text = "Analytical fallback (no trained model)")

\* The model file loads, the feature-importance file is corrupted, and two
\* requests have been answered.
C14_Witness ==
  /\ pc = "serving"
  /\ Loads(model_file) /\ xgb_installed /\ Loads(metrics_file)
  /\ fi_file.state = "corrupt"
  /\ n_predicts = 2 /\ ~IsNone(resp)
  /\ Val(resp).model_id = "xgboost-similarity-fallback"

\* C15 -- a response carries a contribution breakdown exactly when the trained
\* model produced it: a trained adapter answers with model_id
\* "xgboost-similarity" and a contribution map keyed by the 13 schema names, a
\* fallback adapter with model_id "xgboost-similarity-fallback" and no map.
C15_ContributionsIffTrained ==
  (pc = "serving" /\ ~IsNone(resp)) =>
    LET r == Val(resp)
    IN  IF is_trained(Val(similarity_model))
        THEN /\ r.model_id = "xgboost-similarity"
             /\ ~IsNone(r.feature_contributions)
             /\ DOMAIN Val(r.feature_contributions) = Range(FEATURE_NAMES)
             /\ Cardinality(DOMAIN Val(r.feature_contributions)) = 13
        ELSE /\ r.model_id = "xgboost-similarity-fallback"
             /\ IsNone(r.feature_contributions)

\* A trained adapter answered a request without clock positions: the map is
\* present and its clock entry is null.
C15_Witness ==
  /\ pc = "serving" /\ ~IsNone(resp)
  /\ is_trained(Val(similarity_model))
  /\ ~IsNone(Val(resp).feature_contributions)
  /\ IsNone(Val(Val(resp).feature_contributions)["abs_delta_clock_hrs"])
  /\ ~IsNone(Val(Val(resp).feature_contributions)["abs_delta_distance_ft"])

\* A trained adapter has answered the request held in req.
TrainedAnswer ==
  /\ pc = "serving" /\ ~IsNone(req) /\ ~IsNone(resp)
  /\ ~IsNone(similarity_model)
  /\ UsesTrainedModel(Val(similarity_model))

\* C24 -- tool-weight defaulting at inference: the tool-qualification slot of
\* the vector the adapter builds from a request equals the request's
\* api_1163_tool_weight when it is present and 0.85 when it is omitted, and
\* the run-gap slot is run_gap_years when present and 5.0 when omitted.
C24_ToolWeightDefault ==
  TrainedAnswer =>
    LET r == Val(req)
        features == InferenceFeatures(r)
    IN  /\ features[10] = (IF IsNone(r.api_1163_tool_weight) THEN 85
                           ELSE Val(r.api_1163_tool_weight))
        /\ features[9] = (IF IsNone(r.run_gap_years) THEN 500
                          ELSE Val(r.run_gap_years))

\* The catalog document of the record a request's FeatureVector describes.
DocOfFeatureVector(fv) ==
  [ Feat("", "", fv.type, fv.distance, fv.clock)
      EXCEPT !.depth_percent = fv.depth_percent,
             !.length_in = fv.length_in,
             !.width_in = fv.width_in,
             !.wall_thickness_in = fv.wall_thickness_in,
             !.joint_number = fv.joint_number,
             !.dist_to_upstream_weld_ft = fv.dist_to_upstream_weld_ft ]

\* The vector the dataset builder computes for the records and context of a
\* request that carries run_gap_years and api_1163_tool_weight.
TrainingFeatures(r) ==
  extract_features(
    _feat_to_record(DocOfFeatureVector(r.older)),
    _feat_to_record(DocOfFeatureVector(r.newer)),
    [ run_gap_years |-> Val(r.run_gap_years),
      api_1163_tool_weight |-> Val(r.api_1163_tool_weight),
      dtw_residual |-> r.dtw_residual, icp_residual |-> r.icp_residual,
      anchor_density |-> r.anchor_density ])

\* C25 -- training/inference feature equivalence: for a request that carries
\* its context, the 13-slot vector the adapter builds equals the vector
\* extract_features builds for the same two records in the dataset, and its
\* type-compatibility slot is the table score of older.type and newer.type.
C25_TrainingInferenceEquivalence ==
  ( /\ TrainedAnswer
    /\ ~IsNone(Val(req).run_gap_years)
    /\ ~IsNone(Val(req).api_1163_tool_weight) ) =>
    LET r == Val(req)
        features == InferenceFeatures(r)
    IN  /\ Len(features) = 13
        /\ features = TrainingFeatures(r)
        /\ features[8] = _type_compat_score(r.older.type, r.newer.type)

\* C26 -- the loaded-or-fallback mode is decided once at construction: after
\* __init__ returns, is_trained is true exactly when a model object is held,
\* and no predict call, successful or failing, changes is_trained, the held
\* model, the metrics or the feature importances.
C26_ModeDecidedOnce ==
  /\ [](pc = "serving" =>
          (is_trained(Val(similarity_model))
             <=> ~IsNone(Val(similarity_model)._model)))
  /\ [][(pc = "serving" /\ pc' = "serving") =>
          /\ is_trained(Val(similarity_model'))
               = is_trained(Val(similarity_model))
          /\ Val(similarity_model')._model = Val(similarity_model)._model
          /\ Val(similarity_model')._metrics = Val(similarity_model)._metrics
          /\ Val(similarity_model')._feature_importance
               = Val(similarity_model)._feature_importance]_vars

\* A trained adapter with metrics and importances has taken two predict
\* calls, the last of which raised, and is still trained.
C26_Witness ==
  /\ pc = "serving" /\ n_predicts = 2
  /\ predict_error = Some("Exception in predict")
  /\ is_trained(Val(similarity_model))
  /\ Val(similarity_model)._metrics # EmptyDict
  /\ Val(similarity_model)._feature_importance # EmptyDict

\* main.py model_info, lines 106-119: the body of GET /model/info, or the
\* 503 raised when no adapter is held.
model_info(sm) ==
  IF IsNone(sm) THEN [error |-> Some("HTTPException 503"), body |-> None]
  ELSE [ error |-> None,
         body |-> Some(
           [ model_id |-> "xgboost-similarity",
             trained |-> is_trained(Val(sm)),
             metrics |-> Val(sm)._metrics,
             feature_importance |-> Val(sm)._feature_importance,
             feature_names |-> DOMAIN Val(sm)._feature_importance ]) ]

\* C30 -- a fallback-mode adapter exposes no trained-model data: whenever
\* is_trained is false after construction, the adapter's metrics and feature
\* importances are both empty, and /model/info never reports trained = false
\* together with non-empty training metrics.
C30_FallbackExposesNothing ==
  (pc = "serving" /\ ~is_trained(Val(similarity_model))) =>
    LET info == Val(model_info(similarity_model).body)
    IN  /\ Val(similarity_model)._metrics = EmptyDict
        /\ Val(similarity_model)._feature_importance = EmptyDict
        /\ ~info.trained
        /\ info.metrics = EmptyDict
        /\ info.feature_importance = EmptyDict

\* ========================================================================
\* training/train_xgboost.py : train_model
\*
\* Only the labels decide the control flow of train_model; what the fitted
\* classifiers predict is any value of a small set of probabilities.  The
\* calls into scikit-learn and xgboost are modelled by what the libraries do
\* with the labels they are given, including the errors they raise.
\* ========================================================================
n_folds == 5

CountOf(s, v) == Cardinality({i \in 1..Len(s) : s[i] = v})

Repeat(v, k) == [i \in 1..k |-> v]

\* A label vector with pos ones and neg zeros whose first element is `first`.
Labels(pos, neg, first) ==
  IF first = 1 THEN Repeat(1, pos) \o Repeat(0, neg)
  ELSE Repeat(0, neg) \o Repeat(1, pos)

SingleClass(labels) == Len(labels) > 0 /\ Cardinality(Range(labels)) = 1

Raised(type, line, call) == Some([type |-> type, line |-> line, call |-> call])

\* The label vectors train_model is called with: <<positives, negatives>>.
TrainInputs ==
  { <<4, 0>>, <<10, 0>>, <<0, 10>>, <<0, 0>>, <<5, 5>>, <<9, 6>>, <<1, 9>>,
    <<3, 12>> }

\* train_test_split(..., test_size=0.2, stratify=y), line 98: the sizes of the
\* two parts, or the ValueError that scikit-learn raises.
SplitError(labels) ==
  LET n == Len(labels)
      n_test == (n + 4) \div 5
      n_train == n - n_test
      classes == Range(labels)
  IN  \/ n = 0
      \/ n_train = 0
      \/ \E c \in classes : CountOf(labels, c) < 2
      \/ n_train < Cardinality(classes)
      \/ n_test < Cardinality(classes)

\* The number of positives scikit-learn puts in the training part: the floor
\* of the proportional share, plus one for the class with the larger
\* remainder (either class on a tie).
TrainPositives(labels) ==
  LET n == Len(labels)
      pos == CountOf(labels, 1)
      neg == n - pos
      n_train == n - (n + 4) \div 5
      base == (pos * n_train) \div n
      rp == (pos * n_train) % n
      rn == (neg * n_train) % n
  IN  IF rp = 0 THEN {base}
      ELSE IF rp > rn THEN {base + 1}
      ELSE IF rp < rn THEN {base}
      ELSE {base, base + 1}

\* StratifiedKFold(n_splits=5, shuffle=True).split, lines 106-108: the
\* ValueError raised when there are fewer samples than folds or when no class
\* has as many members as there are folds.
KFoldError(labels) ==
  \/ Len(labels) < n_folds
  \/ \A c \in Range(labels) : CountOf(labels, c) < n_folds

\* Members of class c in the validation part of fold k (0-based): the classes
\* are laid out in the order of their first appearance and dealt to the folds
\* in turn.
FoldValCount(labels, k, c) ==
  LET n == Len(labels)
      c_first == CountOf(labels, labels[1])
      in_fold == {j \in 0..(n - 1) : j % n_folds = k}
  IN  IF c = labels[1] THEN Cardinality({j \in in_fold : j < c_first})
      ELSE Cardinality({j \in in_fold : j >= c_first})

\* XGBClassifier.fit on labels that are all 1 (lines 118, 139): recent xgboost
\* raises ValueError (invalid classes), older xgboost fits.
FitRaises(n_pos_fit, n_neg_fit, lib) ==
  n_pos_fit > 0 /\ n_neg_fit = 0 /\ lib = "raise"

\* AUC values a validation fold may score.
FoldAucs == {7500, 10000}

\* Probabilities the final classifier may give a holdout sample.
Probas == {2000, 5000, 9000}

ProbaVectors(n) == [1..n -> Probas]

\* roc_auc_score for labels of both classes: the share of (positive, negative)
\* pairs ranked in the right order, ties counting half.
RocAuc(labels, proba) ==
  LET P == {i \in 1..Len(labels) : labels[i] = 1}
      N == {i \in 1..Len(labels) : labels[i] = 0}
      gt == Cardinality({pr \in P \X N : proba[pr[1]] > proba[pr[2]]})
      eq == Cardinality({pr \in P \X N : proba[pr[1]] = proba[pr[2]]})
  IN  RoundDiv((2 * gt + eq) * 10000, 2 * Cardinality(P) * Cardinality(N))

\* (y_test_proba >= t).astype(int), lines 154 and 164.
PredAt(proba, t) == [i \in 1..Len(proba) |-> IF proba[i] >= t THEN 1 ELSE 0]

CountPairs(y_true, y_pred, t, q) ==
  Cardinality({i \in 1..Len(y_true) : y_true[i] = t /\ y_pred[i] = q})

\* Lines 153-160.
ThresholdEntry(labels, proba, t) ==
  LET y_pred_t == PredAt(proba, t)
      tp == CountPairs(labels, y_pred_t, 1, 1)
      fp == CountPairs(labels, y_pred_t, 0, 1)
      fn == CountPairs(labels, y_pred_t, 1, 0)
  IN  [ precision |-> RoundDiv(tp * 10000, Max2(tp + fp, 1)),
        recall |-> RoundDiv(tp * 10000, Max2(tp + fn, 1)) ]

Thresholds == {3000, 5000, 7000, 8000, 9000}

\* unique_labels(y_true, y_pred), sorted.
UnionLabels(y_true, y_pred) ==
  LET u == Range(y_true) \cup Range(y_pred)
  IN  IF u = {0, 1} THEN <<0, 1>>
      ELSE IF u = {0} THEN <<0>>
      ELSE IF u = {1} THEN <<1>>
      ELSE << >>

\* Mutant: the matrix is asked for the positive label only.
ConfusionMatrixPositiveOnly(y_true, y_pred) ==
  << << CountPairs(y_true, y_pred, 1, 1) >> >>

\* sklearn.metrics.confusion_matrix(y_true, y_pred), line 167: one row per
\* label of the union (true class), one column per label (predicted class).
confusion_matrix(y_true, y_pred) ==
  LET labels == UnionLabels(y_true, y_pred)
  IN  [ i \in 1..Len(labels) |->
          [ j \in 1..Len(labels) |->
              CountPairs(y_true, y_pred, labels[i], labels[j]) ] ]

\* final_clf, line 139: the classifier this run fitted.
FittedModel == [booster |-> "clf", run |-> tr_run]

\* final_clf.feature_importances_, lines 171-173 (the library's numbers; each
\* run's fit has its own).
RunImportances(run) ==
  [ n \in Range(FEATURE_NAMES) |->
      IF n = "abs_delta_distance_ft" THEN 400000 - 1000 * run
      ELSE IF n = "type_compatibility" THEN 250000 + 1000 * run
      ELSE IF n = "run_gap_years" THEN 50000 ELSE 25000 ]

FeatureImportances == RunImportances(tr_run)

SeqSum(s) ==
  LET F[i \in 0..Len(s)] == IF i = 0 THEN 0 ELSE F[i - 1] + s[i]
  IN  F[Len(s)]

\* np.mean / np.std of the fold scores (NaN if a fold scored NaN).
MeanOf(s) ==
  IF \E i \in 1..Len(s) : s[i] = NaN THEN NaN ELSE RoundDiv(SeqSum(s), Len(s))

ISqrt(x) == CHOOSE k \in 0..10000 : k * k <= x /\ (k + 1) * (k + 1) > x

StdOf(s) ==
  IF \E i \in 1..Len(s) : s[i] = NaN THEN NaN
  ELSE LET m == SeqSum(s)
           dev == [i \in 1..Len(s) |-> (Len(s) * s[i] - m) * (Len(s) * s[i] - m)]
       IN  ISqrt(SeqSum(dev) \div (Len(s) * Len(s) * Len(s)))

\* Lines 185-198.
TrainingMetrics ==
     ("trained_at" :> tr_run)
  @@ ("n_samples" :> Len(tr_y))
  @@ ("n_positives" :> CountOf(tr_y, 1))
  @@ ("n_negatives" :> Len(tr_y) - CountOf(tr_y, 1))
  @@ ("n_features" :> NUM_FEATURES)
  @@ ("cv_folds" :> n_folds)
  @@ ("cv_auc_mean" :> MeanOf(cv_aucs))
  @@ ("cv_auc_std" :> StdOf(cv_aucs))
  @@ ("holdout_auc" :> Val(test_auc))
  @@ ("thresholds" :> Val(threshold_report))

\* A call of train_model on a label vector, with either behaviour of the
\* installed libraries on single-class labels.
InitTrain ==
  /\ snapshot = 1 /\ seed = 0 /\ neg_pos_ratio = 300
  /\ pc = "train" /\ builds = 0
  /\ pyRng = 0 /\ npRng = 0
  /\ LocalsInit
  /\ exit_code = None /\ saved = None /\ prev_out = None
  /\ FxIdle /\ SvcIdle
  /\ \E c \in TrainInputs, first \in {0, 1} : tr_y = Labels(c[1], c[2], first)
  /\ tr_run = 1
  /\ sk_single_class \in {"raise", "nan"}
  /\ xgb_single_class \in {"raise", "ok"}
  /\ TrainLocalsInit

TrainFrame ==
  UNCHANGED <<inputVars, builds, rngVars, loadVars, posVars, mp_i, a_i,
              targetVars, negVars, easy_attempts, outVars, exit_code, saved,
              prev_out, fxVars, svcVars, trainInputs>>

\* Lines 85-95.
TrainStart ==
  /\ pc = "train"
  /\ LET n_pos_y == CountOf(tr_y, 1)
         n_neg_y == Len(tr_y) - n_pos_y
     IN  scale_pos_weight' =
           IF n_pos_y > 0 THEN RoundDiv(n_neg_y * 100, n_pos_y)
           ELSE scale_pos_weight
  /\ pc' = "split"
  /\ UNCHANGED <<fileVars, y_train, y_test, fold, cv_aucs, y_test_proba,
                 test_auc, threshold_report, cm, tr_error, tr_result>>
  /\ TrainFrame

\* Lines 98-101.
TrainTestSplit ==
  /\ pc = "split"
  /\ IF SplitError(tr_y)
     THEN /\ tr_error' = Raised("ValueError", 98, "train_test_split")
          /\ pc' = "train_raised"
          /\ UNCHANGED <<y_train, y_test>>
     ELSE /\ \E tp \in TrainPositives(tr_y), first \in Range(tr_y) :
               LET pos == CountOf(tr_y, 1)
                   neg == Len(tr_y) - pos
                   n_train == Len(tr_y) - (Len(tr_y) + 4) \div 5
               IN  /\ tp <= pos /\ n_train - tp <= neg
                   /\ (first = 1 => tp > 0) /\ (first = 0 => n_train - tp > 0)
                   /\ y_train' = Labels(tp, n_train - tp, first)
                   /\ y_test' = Labels(pos - tp, neg - (n_train - tp), 1)
          /\ pc' = "cv"
          /\ UNCHANGED tr_error
  /\ UNCHANGED <<fileVars, scale_pos_weight, fold, cv_aucs, y_test_proba,
                 test_auc, threshold_report, cm, tr_result>>
  /\ TrainFrame

\* Lines 106-127: one fold of the cross-validation.
CvFold ==
  /\ pc = "cv"
  /\ fold < n_folds
  /\ LET val_pos == FoldValCount(y_train, fold, 1)
         val_neg == FoldValCount(y_train, fold, 0)
         fit_pos == CountOf(y_train, 1) - val_pos
         fit_neg == CountOf(y_train, 0) - val_neg
     IN  IF fold = 0 /\ KFoldError(y_train)
         THEN /\ tr_error' = Raised("ValueError", 108, "StratifiedKFold.split")
              /\ pc' = "train_raised"
              /\ UNCHANGED <<fold, cv_aucs>>
         ELSE IF FitRaises(fit_pos, fit_neg, xgb_single_class)
         THEN /\ tr_error' = Raised("ValueError", 118, "XGBClassifier.fit")
              /\ pc' = "train_raised"
              /\ UNCHANGED <<fold, cv_aucs>>
         ELSE IF val_pos = 0 \/ val_neg = 0
         THEN IF sk_single_class = "raise"
              THEN /\ tr_error' = Raised("ValueError", 125, "roc_auc_score")
                   /\ pc' = "train_raised"
                   /\ UNCHANGED <<fold, cv_aucs>>
              ELSE /\ cv_aucs' = Append(cv_aucs, NaN)
                   /\ fold' = fold + 1
                   /\ UNCHANGED <<pc, tr_error>>
         ELSE /\ \E a \in FoldAucs : cv_aucs' = Append(cv_aucs, a)
              /\ fold' = fold + 1
              /\ UNCHANGED <<pc, tr_error>>
  /\ UNCHANGED <<fileVars, scale_pos_weight, y_train, y_test, y_test_proba,
                 test_auc, threshold_report, cm, tr_result>>
  /\ TrainFrame

\* Lines 129-143: the fold scores are averaged and the final model is fitted.
FinalFit ==
  /\ pc = "cv"
  /\ fold = n_folds
  /\ IF FitRaises(CountOf(y_train, 1), CountOf(y_train, 0), xgb_single_class)
     THEN /\ tr_error' = Raised("ValueError", 139, "XGBClassifier.fit")
          /\ pc' = "train_raised"
     ELSE /\ pc' = "holdout"
          /\ UNCHANGED tr_error
  /\ UNCHANGED <<fileVars, scale_pos_weight, y_train, y_test, fold, cv_aucs,
                 y_test_proba, test_auc, threshold_report, cm, tr_result>>
  /\ TrainFrame

\* Lines 146-148.
HoldoutEval ==
  /\ pc = "holdout"
  /\ \E proba \in ProbaVectors(Len(y_test)) :
       /\ y_test_proba' = proba
       /\ IF SingleClass(y_test)
          THEN IF sk_single_class = "raise"
               THEN /\ tr_error' = Raised("ValueError", 147, "roc_auc_score")
                    /\ pc' = "train_raised"
                    /\ UNCHANGED test_auc
               ELSE /\ test_auc' = Some(NaN)
                    /\ pc' = "thresholds"
                    /\ UNCHANGED tr_error
          ELSE /\ test_auc' = Some(RocAuc(y_test, proba))
               /\ pc' = "thresholds"
               /\ UNCHANGED tr_error
  /\ UNCHANGED <<fileVars, scale_pos_weight, y_train, y_test, fold, cv_aucs,
                 threshold_report, cm, tr_result>>
  /\ TrainFrame

\* Lines 151-161.
ThresholdReport ==
  /\ pc = "thresholds"
  /\ threshold_report' =
       Some([t \in Thresholds |-> ThresholdEntry(y_test, y_test_proba, t)])
  /\ pc' = "report"
  /\ UNCHANGED <<fileVars, scale_pos_weight, y_train, y_test, fold, cv_aucs,
                 y_test_proba, test_auc, cm, tr_error, tr_result>>
  /\ TrainFrame

\* Lines 164-168: classification_report is given two target names and raises
\* ValueError when labels and predictions together show one class only.
ClassificationReport ==
  /\ pc = "report"
  /\ LET y_pred_50 == PredAt(y_test_proba, 5000)
     IN  IF Len(UnionLabels(y_test, y_pred_50)) # 2
         THEN /\ tr_error' = Raised("ValueError", 166, "classification_report")
              /\ pc' = "train_raised"
              /\ UNCHANGED cm
         ELSE /\ cm' = Some(confusion_matrix(y_test, y_pred_50))
              /\ pc' = "save_model"
              /\ UNCHANGED tr_error
  /\ UNCHANGED <<fileVars, scale_pos_weight, y_train, y_test, fold, cv_aucs,
                 y_test_proba, test_auc, threshold_report, tr_result>>
  /\ TrainFrame

\* Lines 171-182.
SaveModel ==
  /\ pc = "save_model"
  /\ model_file' = ValidFile(FittedModel)
  /\ pc' = "save_metrics"
  /\ UNCHANGED <<metrics_file, fi_file, scale_pos_weight, y_train, y_test,
                 fold, cv_aucs, y_test_proba, test_auc, threshold_report, cm,
                 tr_error, tr_result>>
  /\ TrainFrame

\* Lines 185-202.
SaveMetrics ==
  /\ pc = "save_metrics"
  /\ metrics_file' = ValidFile(TrainingMetrics)
  /\ pc' = "save_fi"
  /\ UNCHANGED <<model_file, fi_file, scale_pos_weight, y_train, y_test,
                 fold, cv_aucs, y_test_proba, test_auc, threshold_report, cm,
                 tr_error, tr_result>>
  /\ TrainFrame

\* Lines 205-215.
SaveImportance ==
  /\ pc = "save_fi"
  /\ fi_file' = ValidFile(FeatureImportances)
  /\ tr_result' = Some([ model |-> FittedModel, metrics |-> TrainingMetrics,
                         feature_importance |-> FeatureImportances,
                         thresholds |-> Val(threshold_report) ])
  /\ pc' = "train_returned"
  /\ UNCHANGED <<model_file, metrics_file, scale_pos_weight, y_train, y_test,
                 fold, cv_aucs, y_test_proba, test_auc, threshold_report, cm,
                 tr_error>>
  /\ TrainFrame

NextTrain ==
  \/ TrainStart \/ TrainTestSplit \/ CvFold \/ FinalFit \/ HoldoutEval
  \/ ThresholdReport \/ ClassificationReport
  \/ SaveModel \/ SaveMetrics \/ SaveImportance

SpecTrain == InitTrain /\ [][NextTrain]_vars

TrainFinished == pc = "train_raised" \/ pc = "train_returned"

\* C16 -- given a label vector of one class only, train_model either refuses
\* to train with a data-absence error or returns reporting a degenerate AUC;
\* it never ends in an unhandled error raised by a library call.
C16_SingleClassHandled ==
  (TrainFinished /\ SingleClass(tr_y)) =>
    \/ pc = "train_returned" /\ test_auc = Some(NaN)
    \/ pc = "train_raised" /\ Val(tr_error).type = "DataAbsenceError"

SavePoint ==
  /\ tr_y = Labels(9, 6, 1)
  /\ sk_single_class = "raise" /\ xgb_single_class = "raise"
  /\ scale_pos_weight = 67
  /\ y_train = Labels(7, 5, 1) /\ y_test = Labels(2, 1, 1)
  /\ fold = n_folds /\ cv_aucs = <<10000, 7500, 10000, 10000, 7500>>
  /\ y_test_proba = <<9000, 5000, 2000>>
  /\ test_auc = Some(RocAuc(y_test, y_test_proba))
  /\ threshold_report =
       Some([t \in Thresholds |-> ThresholdEntry(y_test, y_test_proba, t)])
  /\ cm = Some(confusion_matrix(y_test, PredAt(y_test_proba, 5000)))
  /\ tr_error = None /\ tr_result = None

\* An empty artifact directory, no service process, the first training run
\* about to write.
InitArtifacts ==
  /\ snapshot = 1 /\ seed = 0 /\ neg_pos_ratio = 300
  /\ builds = 0
  /\ pyRng = 0 /\ npRng = 0
  /\ LocalsInit
  /\ exit_code = None /\ saved = None /\ prev_out = None
  /\ FxIdle /\ SvcIdle
  /\ pc = "save_model" /\ tr_run = 1
  /\ SavePoint

ArtifactFrame ==
  UNCHANGED <<inputVars, builds, rngVars, loadVars, posVars, mp_i, a_i,
              targetVars, negVars, easy_attempts, outVars, exit_code, saved,
              prev_out, fxVars, xgb_installed, startup_error, req, resp,
              predict_error, n_predicts, tr_y, sk_single_class,
              xgb_single_class, scale_pos_weight, y_train, y_test, fold,
              cv_aucs, y_test_proba, test_auc, threshold_report, cm>>

\* Lines 181, 199-200, 206-207: the write raises (OSError) or the process is
\* stopped before it; the file is left as it was and the run is over.
SaveInterrupted ==
  /\ pc \in {"save_model", "save_metrics", "save_fi"}
  /\ tr_error' = Raised("OSError",
                        CASE pc = "save_model" -> 181
                          [] pc = "save_metrics" -> 199
                          [] OTHER -> 206,
                        "open")
  /\ pc' = "train_raised"
  /\ UNCHANGED <<fileVars, similarity_model, tr_run, tr_result>>
  /\ ArtifactFrame

\* The training command is run again (train_xgboost.py __main__): lines
\* 85-178 of the new call compute its locals without touching the directory.
TrainRerun ==
  /\ pc \in {"train_returned", "train_raised"}
  /\ tr_run < MaxRuns
  /\ tr_run' = tr_run + 1
  /\ tr_error' = None /\ tr_result' = None
  /\ pc' = "save_model"
  /\ UNCHANGED <<fileVars, similarity_model>>
  /\ ArtifactFrame

\* main.py lifespan, line 50, in a service process started at this moment:
\* the adapter reads what the directory holds now.
ConstructAdapter ==
  /\ IsNone(similarity_model)
  /\ similarity_model' =
       Some(XGBoostSimilarityModel(model_file, metrics_file, fi_file,
                                   xgb_installed))
  /\ UNCHANGED <<pc, fileVars, tr_run, tr_error, tr_result>>
  /\ ArtifactFrame

\* main.py lifespan, line 61: the service process ends.
DropAdapter ==
  /\ ~IsNone(similarity_model)
  /\ similarity_model' = None
  /\ UNCHANGED <<pc, fileVars, tr_run, tr_error, tr_result>>
  /\ ArtifactFrame

NextArtifacts ==
  \/ SaveModel \/ SaveMetrics \/ SaveImportance \/ SaveInterrupted
  \/ TrainRerun
  \/ ConstructAdapter \/ DropAdapter

SpecArtifacts == InitArtifacts /\ [][NextArtifacts]_vars

\* C29 -- artifact consistency under interleaving: an adapter constructed at
\* any moment, also while a training run is writing or after a run failed
\* part-way through its three writes, holds a model, metrics and feature
\* importances that all come from the same training run.
C29_ArtifactsFromOneRun ==
  ~IsNone(similarity_model) =>
    LET self == Val(similarity_model)
    IN  \E k \in 1..tr_run :
          /\ (~IsNone(self._model) => Val(self._model).run = k)
          /\ (self._metrics # EmptyDict => self._metrics["trained_at"] = k)
          /\ (self._feature_importance # EmptyDict =>
                self._feature_importance = RunImportances(k))

\* ========================================================================
\* extract_features called directly on arbitrary records and contexts
\* ========================================================================
Rec(type, dist, clock, depth, length, width, wall, joint) ==
  [ feature_id |-> "", run_id |-> "", event_type |-> type,
    corrected_distance_ft |-> dist, log_distance_ft |-> dist,
    clock_position_hrs |-> clock, depth_percent |-> depth,
    length_in |-> length, width_in |-> width, wall_thickness_in |-> wall,
    joint_number |-> joint, dist_to_upstream_weld_ft |-> None ]

\* Clock positions lie on the dial (0..12 h); geometry values and residuals
\* are non-negative.
FxOlderRecords ==
  { Rec(td[1], td[2], clock, depth, length, width, wall, joint) :
      td \in {<<"DENT", 0>>, <<"METAL_LOSS", 3900>>, <<"UNLISTED", 9000>>},
      clock \in {None, Some(0), Some(1200)},
      depth \in {None, Some(2000)}, length \in {None, Some(150)},
      width \in {None, Some(0)}, wall \in {None, Some(25)},
      joint \in {None, Some(7)} }

FxNewerRecords ==
  { Rec(td[1], td[2], clock, depth, length, gw[1], gw[2], joint) :
      td \in {<<"DENT", 4000>>, <<"DEFORMATION", 100>>},
      clock \in {None, Some(650)},
      depth \in {None, Some(2100)}, length \in {None, Some(150)},
      gw \in {<<None, None>>, <<Some(50), Some(30)>>},
      joint \in {None, Some(8)} }

FxContexts ==
  { [ run_gap_years |-> 500, api_1163_tool_weight |-> 85,
      dtw_residual |-> r[1], icp_residual |-> r[2], anchor_density |-> r[3] ] :
      r \in { <<None, None, None>>, <<Some(0), None, None>>,
              <<None, Some(120), None>>, <<None, None, Some(300)>>,
              <<Some(40), Some(0), Some(0)>> } }

InitFeatures ==
  /\ snapshot = 1 /\ seed = 0 /\ neg_pos_ratio = 300
  /\ pc = "features" /\ builds = 0
  /\ pyRng = 0 /\ npRng = 0
  /\ LocalsInit
  /\ exit_code = None /\ saved = None /\ prev_out = None
  /\ fx_older \in {Some(r) : r \in FxOlderRecords}
  /\ fx_newer \in {Some(r) : r \in FxNewerRecords}
  /\ fx_ctx \in {Some(c) : c \in FxContexts}
  /\ fx_out = None
  /\ SvcIdle /\ TrainIdle

\* features.py lines 133-167.
FxExtract ==
  /\ pc = "features"
  /\ IsNone(fx_out)
  /\ fx_out' = Some(extract_features(Val(fx_older), Val(fx_newer), Val(fx_ctx)))
  /\ UNCHANGED <<inputVars, pc, builds, rngVars, loadVars, posVars, mp_i, a_i,
                 targetVars, negVars, easy_attempts, outVars, exit_code, saved,
                 prev_out, fx_older, fx_newer, fx_ctx,
              fileVars, svcVars, trainVars>>

NextFeatures == FxExtract

SpecFeatures == InitFeatures /\ [][NextFeatures]_vars

Missing2(a, b) == IsNone(a) \/ IsNone(b)

\* C10 -- extract_features returns exactly 13 slots in schema order; the clock
\* slot, the four geometry slots and the three alignment slots hold the sentinel
\* -1.0 exactly when an input of that slot is absent; the same-segment and
\* type-compatibility slots never hold the sentinel.
C10_FeatureSlots ==
  ~IsNone(fx_out) =>
    LET f == Val(fx_out)
        o == Val(fx_older)
        n == Val(fx_newer)
        c == Val(fx_ctx)
    IN  /\ Len(f) = 13 /\ Len(FEATURE_NAMES) = 13
        /\ f[1] = Abs(o.corrected_distance_ft - n.corrected_distance_ft)
        /\ (f[2] = -100 <=> Missing2(o.clock_position_hrs, n.clock_position_hrs))
        /\ f[3] \in {0, 100}
        /\ (f[4] = -100 <=> Missing2(o.depth_percent, n.depth_percent))
        /\ (f[5] = -100 <=> Missing2(o.length_in, n.length_in))
        /\ (f[6] = -100 <=> Missing2(o.width_in, n.width_in))
        /\ (f[7] = -100 <=> Missing2(o.wall_thickness_in, n.wall_thickness_in))
        /\ f[8] \in 0..100
        /\ f[9] = c.run_gap_years
        /\ f[10] = c.api_1163_tool_weight
        /\ (f[11] = -100 <=> IsNone(c.dtw_residual))
        /\ (f[12] = -100 <=> IsNone(c.icp_residual))
        /\ (f[13] = -100 <=> IsNone(c.anchor_density))

\* A vector with the clock slot missing, a geometry slot missing (one side
\* absent only), another geometry slot and an alignment slot present.
C10_Witness ==
  /\ ~IsNone(fx_out)
  /\ Val(fx_out)[2] = -100
  /\ Val(fx_out)[4] # -100
  /\ Val(fx_out)[5] = -100 /\ ~IsNone(Val(fx_older).length_in)
  /\ Val(fx_out)[11] # -100

\* ========================================================================
\* The helpers of features.py called directly: fx_older and fx_newer hold the
\* two arguments, fx_out the returned value.
\* ========================================================================

\* Clock positions on the dial [0, 12): every quarter hour, and the values
\* next to the ends of the dial and to the half-dial boundary.
ClockPositions == {25 * k : k \in 0..47} \cup {1, 599, 601, 1199}

FxClocks == {None} \cup {Some(c) : c \in ClockPositions}

\* Every type name of the table, and names the table does not list.
FxTypeNames ==
  { "METAL_LOSS", "DENT", "CRACK", "WELD", "GIRTH_WELD", "CLUSTER",
    "CORROSION", "DEFORMATION", "CRACK_LIKE", "METAL_LOSS_MFG",
    "OTHER", "metal_loss" }

FxSegmentOlder ==
  { Rec("DENT", dist, None, None, None, None, None, joint) :
      dist \in {0, 1, 3999, 4000, 4001, 9000},
      joint \in {None, Some(7), Some(8)} }

FxSegmentNewer ==
  { Rec("DENT", dist, None, None, None, None, None, joint) :
      dist \in {0, 4000, 8000},
      joint \in {None, Some(7), Some(8)} }

InitHelpers ==
  /\ snapshot = 1 /\ seed = 0 /\ neg_pos_ratio = 300
  /\ builds = 0
  /\ pyRng = 0 /\ npRng = 0
  /\ LocalsInit
  /\ exit_code = None /\ saved = None /\ prev_out = None
  /\ fx_ctx = None /\ fx_out = None
  /\ SvcIdle /\ TrainIdle
  /\ \/ /\ pc = "clock"
        /\ fx_older \in FxClocks /\ fx_newer \in FxClocks
     \/ /\ pc = "types"
        /\ fx_older \in FxTypeNames /\ fx_newer \in FxTypeNames
     \/ /\ pc = "segment"
        /\ fx_older \in FxSegmentOlder /\ fx_newer \in FxSegmentNewer

HelperFrame ==
  UNCHANGED <<inputVars, pc, builds, rngVars, loadVars, posVars, mp_i, a_i,
              targetVars, negVars, easy_attempts, outVars, exit_code, saved,
              prev_out, fx_older, fx_newer, fx_ctx,
              fileVars, svcVars, trainVars>>

\* features.py lines 97-105.
CallClockDelta ==
  /\ pc = "clock"
  /\ IsNone(fx_out)
  /\ fx_out' = Some(_clock_delta_wrap_aware(fx_older, fx_newer))
  /\ HelperFrame

\* features.py lines 115-120, called for (t1, t2) and for (t2, t1).
CallTypeCompat ==
  /\ pc = "types"
  /\ IsNone(fx_out)
  /\ fx_out' = Some(<< _type_compat_score(fx_older, fx_newer),
                       _type_compat_score(fx_newer, fx_older) >>)
  /\ HelperFrame

\* features.py lines 123-130.
CallSameSegment ==
  /\ pc = "segment"
  /\ IsNone(fx_out)
  /\ fx_out' = Some(_same_weld_segment(fx_older, fx_newer))
  /\ HelperFrame

NextHelpers == CallClockDelta \/ CallTypeCompat \/ CallSameSegment

SpecHelpers == InitHelpers /\ [][NextHelpers]_vars

\* C11 -- for clock positions a and b in [0, 12) the wrap-aware delta lies in
\* [0, 6] and is the shorter of the two arcs between a and b on the 12-hour
\* dial, |a - b| and 12 - |a - b|.
C11_ClockDeltaShorterArc ==
  (pc = "clock" /\ ~IsNone(fx_out) /\ ~IsNone(fx_older) /\ ~IsNone(fx_newer)) =>
    LET a == Val(fx_older)
        b == Val(fx_newer)
        d == IF a >= b THEN a - b ELSE b - a
        r == Val(fx_out)
    IN  /\ r >= 0 /\ r <= 600
        /\ r <= d /\ r <= 1200 - d
        /\ (r = d \/ r = 1200 - d)

\* A delta taken across the 12 o'clock position, and one of exactly 6 hours.
C11_Witness ==
  /\ pc = "clock" /\ ~IsNone(fx_out)
  /\ fx_older = Some(1199) /\ fx_newer \in {Some(25), Some(599)}
  /\ Val(fx_out) \in {26, 600}

\* C12 -- the type-compatibility score is symmetric in its arguments; equal
\* names score 1.0, two different names listed together in the table score in
\* (0, 1], two different names not listed together score 0.0.
C12_TypeCompatSymmetric ==
  (pc = "types" /\ ~IsNone(fx_out)) =>
    LET f == Val(fx_out)
        listed == <<fx_older, fx_newer>> \in DOMAIN TYPE_COMPAT
    IN  /\ f[1] = f[2]
        /\ (fx_older = fx_newer => f[1] = 100)
        /\ (fx_older # fx_newer /\ listed => f[1] > 0 /\ f[1] <= 100)
        /\ (fx_older # fx_newer /\ ~listed => f[1] = 0)

\* A heterogeneous table entry looked up in its second orientation.
C12_Witness ==
  /\ pc = "types" /\ ~IsNone(fx_out)
  /\ fx_older = "METAL_LOSS_MFG" /\ fx_newer = "METAL_LOSS"
  /\ Val(fx_out) = <<70, 70>>

PositionTest(a, b) ==
  IF Abs(a.corrected_distance_ft - b.corrected_distance_ft) < 4000
  THEN 100 ELSE 0

BothJointsPresent(a, b) == ~IsNone(a.joint_number) /\ ~IsNone(b.joint_number)

\* C13 as stated -- the same-segment slot is 1.0 if both joint numbers are
\* present and equal, and in every other case (also when both are present and
\* different) it is the result of the position test.
C13_FallbackWhenJointsDiffer ==
  (pc = "segment" /\ ~IsNone(fx_out)) =>
    Val(fx_out) =
      IF BothJointsPresent(fx_older, fx_newer)
         /\ Val(fx_older.joint_number) = Val(fx_newer.joint_number)
      THEN 100
      ELSE PositionTest(fx_older, fx_newer)

\* C13 amended -- when both joint numbers are present the slot is 1.0 if they
\* are equal and 0.0 if they differ, whatever the positions; only when a joint
\* number is absent is it the position test (1.0 below 40, else 0.0).
C13_SameSegment ==
  (pc = "segment" /\ ~IsNone(fx_out)) =>
    Val(fx_out) =
      IF BothJointsPresent(fx_older, fx_newer)
      THEN (IF Val(fx_older.joint_number) = Val(fx_newer.joint_number)
            THEN 100 ELSE 0)
      ELSE PositionTest(fx_older, fx_newer)

\* Two different joint numbers one distance unit apart: the slot is 0.0.
C13_Witness ==
  /\ pc = "segment" /\ ~IsNone(fx_out)
  /\ fx_older.joint_number = Some(7) /\ fx_newer.joint_number = Some(8)
  /\ fx_older.corrected_distance_ft = 1 /\ fx_newer.corrected_distance_ft = 0
  /\ Val(fx_out) = 0

====
